---- MODULE Spec2Model ----
(***************************************************************************)
(* Bouncer (src/main.cpp): the player's bounce state machine, the          *)
(* player-vs-world collision and the circle-vs-rectangle primitive of the  *)
(* main loop, as a state machine.                                          *)
(*                                                                         *)
(* Units.  Every vertical quantity of the player (playerY, velocityY, the  *)
(* impulses, gravity, the timing-window distances) is a multiple of 0.5 in *)
(* the program, and all of them are far below 2^24, so the program's float *)
(* arithmetic on them is exact.  The model stores them in HALF UNITS (the  *)
(* program's value times 2): GRAVITY 0.5 is 1, BOUNCE_LEVEL1 -10.0 is -20. *)
(* Rectangles (SDL_Rect, int) and playerX stay in world units; H(n)        *)
(* converts world units to half units.                                     *)
(*                                                                         *)
(* The ball's floats (position, velocity, radius, restitution) are not     *)
(* multiples of a fixed binary fraction once a square root or a quotient   *)
(* is taken.  The model stores them in MILLI UNITS (the program's value    *)
(* times 1000) and rounds every product, quotient and square root to the   *)
(* nearest milli unit, where the program rounds to the nearest float.      *)
(*                                                                         *)
(* One iteration of the main loop is the chain of steps                    *)
(*   events -> held -> integrate -> platform -> ground -> render -> events *)
(* pc names the position in the iteration.  pc = "render" is the end of a  *)
(* tick: the state the renderer reads.  Spec follows the player through    *)
(* the iteration; the ball update (lines 916-1059) writes the ball only    *)
(* and reads the player, so SpecBall adds it as the step that closes the   *)
(* iteration:                                                              *)
(*   ... -> platform -> ground -> render -(BallUpdate)-> events            *)
(***************************************************************************)
EXTENDS Integers, Sequences, FiniteSets, TLC

VARIABLES
    pc,                   \* position in the main loop iteration
    playerX,              \* world units
    playerY,              \* half units
    velocityY,            \* half units per tick
    isGrounded,
    wasInAir,
    bounceLevel,
    spacePressed,
    spacePressedThisFall, \* the boost flag
    hadSmallRebound,      \* the small-rebound latch
    faceOffset,
    lastFacing,
    editorMode,
    platforms,            \* sequence of [x, y, w, h, isSolid], world units
    bouncedThisFrame,     \* frame local (line 687)
    landedOnPlatform,     \* frame local (line 717)
    landedOnGround,       \* history: the test of line 819 succeeded this tick
    airLanding,           \* history: this tick's landing found wasInAir set
    landingLevel,         \* history: bounceLevel when that landing was found
    landingBoost,         \* history: the boost flag when it was found
    landingLatch,         \* history: the latch when it was found
    initialJump,          \* history: the initial jump was taken in this iteration
    boostsThisFall,       \* history: boosts accepted since the last landing
    landedOn,             \* history: index of the platform landed on, or 0
    tickStart,            \* history: the player as the tick found it
    quiet,                \* environment: the keys have been let go for good
    ball,                 \* the Ball (lines 38-51, 138-143), milli units
    rect,                 \* resolveCircleRect: the rectangle it is called with
    hit,                  \* resolveCircleRect: what the call returned
    baskets,              \* sequence of [x, y, w, h] (line 135), world units
    upd,                  \* history: what the last ball update did, step by step
    ticks,                \* history: iterations completed, up to MaxTicks
    currentTool,          \* the editor's tool (line 125)
    points,               \* hasStartPoint, startPoint, hasFinishPoint, finishPoint
    levelFile,            \* level.txt: whether it exists, and its numbers
    lastSave              \* history: what the last Save of this run wrote

vars == << pc, playerX, playerY, velocityY, isGrounded, wasInAir, bounceLevel,
           spacePressed, spacePressedThisFall, hadSmallRebound, faceOffset,
           lastFacing, editorMode, platforms, bouncedThisFrame,
           landedOnPlatform, landedOnGround, airLanding, landingLevel,
           landingBoost, landingLatch, initialJump, boostsThisFall,
           landedOn, tickStart, quiet,
           ball, rect, hit, baskets, upd, ticks,
           currentTool, points, levelFile, lastSave >>

\* the editor's side of the state
editorVars == << currentTool, points, levelFile, lastSave >>

\* the history of the tick in progress and the environment's promise
tickHistory == << landedOn, tickStart, quiet >>

\* the ball's side of the state: the ball, the baskets, resolveCircleRect's
\* call, and the history of the ball update
circleVars == << ball, rect, hit, baskets, upd, ticks, editorVars >>

---------------------------------------------------------------------------
\* Program constants (lines 53-97).

SCREEN_WIDTH == 1280
SCREEN_HEIGHT == 720
WORLD_WIDTH == SCREEN_WIDTH * 8
WORLD_HEIGHT == SCREEN_HEIGHT * 2
GROUND_HEIGHT == 64
PLAYER_SIZE == 64
MOVE_SPEED == 5

\* half units
GRAVITY == 1
DOWNWARD_FORCE == 6
BOUNCE_LEVEL0 == -6
BOUNCE_LEVEL1 == -20
BOUNCE_LEVEL2 == -28
BOUNCE_LEVEL3 == -36
BOUNCE_LEVEL4 == -44
BOUNCE_LEVEL5 == -52

\* world units to half units
H(n) == 2 * n

Min(a, b) == IF a < b THEN a ELSE b
Max(a, b) == IF a > b THEN a ELSE b

---------------------------------------------------------------------------
\* Bounds of the model (inputs of the environment, not program constants).

\* the player is steered at most this many MOVE_SPEED steps away from its
\* start column, to either side
MaxWalk == 1

\* the iterations of the main loop that are counted (and that SpecBall
\* follows)
MaxTicks == 1

\* the levels the model is run on: the platform list is read-only in game
\* mode, so Init picks one of these lists and the start position
SolidA == [x |-> 672, y |-> 1312, w |-> 192, h |-> 32, isSolid |-> TRUE]
FallB == [x |-> 416, y |-> 1312, w |-> 192, h |-> 32, isSolid |-> FALSE]
LowC == [x |-> 672, y |-> 1376, w |-> 192, h |-> 32, isSolid |-> TRUE]
\* a platform of a hand-written level file (lines 303-309 read any
\* integers): a step of 8 above SolidA, listed after it
HighD == [x |-> 672, y |-> 1304, w |-> 192, h |-> 32, isSolid |-> TRUE]

Levels == { << >>, << SolidA >>, << FallB, LowC >>, << SolidA, HighD >> }

---------------------------------------------------------------------------
\* Timing window (lines 529-562 and 646-679; the two copies are identical).

\* mutant: the window does not shrink with the level
DistanceThreshold_Flat(level) == H(80)

DistanceThreshold(level) ==
    IF level = 0 THEN H(80)
    ELSE IF level = 1 THEN H(70)
    ELSE IF level = 2 THEN H(60)
    ELSE IF level = 3 THEN H(50)
    ELSE IF level = 4 THEN H(40)
    ELSE H(30)

\* the platform p is scanned by the timing window: collidable, horizontally
\* overlapping, strictly below the player's bottom edge
BelowPlayer(p, px, py, level) ==
    /\ (p.isSolid \/ level > 0)
    /\ px + PLAYER_SIZE > p.x
    /\ px < p.x + p.w
    /\ py + H(PLAYER_SIZE) < H(p.y)

RECURSIVE ScanPlatforms(_, _, _, _, _, _)
ScanPlatforms(plats, i, minDistance, px, py, level) ==
    IF i > Len(plats) THEN minDistance
    ELSE LET p == plats[i]
             distToPlatform == H(p.y) - (py + H(PLAYER_SIZE))
             next == IF /\ BelowPlayer(p, px, py, level)
                        /\ distToPlatform >= 0
                        /\ distToPlatform < minDistance
                     THEN distToPlatform
                     ELSE minDistance
         IN ScanPlatforms(plats, i + 1, next, px, py, level)

MinDistance(plats, px, py, level) ==
    LET groundY == H(WORLD_HEIGHT - GROUND_HEIGHT)
        distanceToGround == groundY - (py + H(PLAYER_SIZE))
    IN ScanPlatforms(plats, 1, distanceToGround, px, py, level)

\* mutant: a window so narrow that a fall steps over it
WindowAccepts_Narrow(plats, px, py, level) ==
    LET minDistance == MinDistance(plats, px, py, level)
    IN minDistance <= H(2) /\ minDistance > 0

WindowAccepts(plats, px, py, level) ==
    LET minDistance == MinDistance(plats, px, py, level)
    IN minDistance <= DistanceThreshold(level) /\ minDistance > 0

\* mutant: a press is checked while the player is still rising
PressMayBoost_Rising == ~isGrounded /\ ~spacePressedThisFall

\* the guard in front of the timing check on a press event (line 529)
PressMayBoost == ~isGrounded /\ ~spacePressedThisFall /\ velocityY > 0

\* mutant: the held key is checked again after a boost
HeldMayBoost_NoFlag == ~isGrounded /\ spacePressed /\ velocityY > 0

\* the guard in front of the per-tick check of the held key (line 646)
HeldMayBoost ==
    ~isGrounded /\ spacePressed /\ ~spacePressedThisFall /\ velocityY > 0

---------------------------------------------------------------------------
\* Landing resolution.

\* the if-ladder that maps the new level to its impulse (lines 745-765,
\* 772-791, 836-856, 863-882); a level outside 1..5 matches no branch
LadderHits(level) == level \in 1..5

\* mutant: the level-3 branch carries the level-2 constant
BounceImpulse_CopyPaste(level) ==
    IF level = 1 THEN BOUNCE_LEVEL1
    ELSE IF level = 2 THEN BOUNCE_LEVEL2
    ELSE IF level = 3 THEN BOUNCE_LEVEL2
    ELSE IF level = 4 THEN BOUNCE_LEVEL4
    ELSE BOUNCE_LEVEL5

BounceImpulse(level) ==
    IF level = 1 THEN BOUNCE_LEVEL1
    ELSE IF level = 2 THEN BOUNCE_LEVEL2
    ELSE IF level = 3 THEN BOUNCE_LEVEL3
    ELSE IF level = 4 THEN BOUNCE_LEVEL4
    ELSE BOUNCE_LEVEL5

\* mutant: the cap is missing
BoostedLevel_NoCap(level) == level + 1

\* level after a boosted landing (lines 740-741, 829-830)
BoostedLevel(level) == IF level + 1 > 5 THEN 5 ELSE level + 1

\* mutant: a miss keeps the level
DecayedLevel_Kept(level) == level

\* mutant: a miss resets the chain
DecayedLevel_Reset(level) == 0

\* level after an unboosted landing (lines 769, 860)
DecayedLevel(level) == Max(0, level - 1)

\* landing of an airborne player on a platform (lines 738-800): the new
\* level, velocity, latch, bouncedThisFrame and boost flag
PlatformLanding(level, vy, boost, latch) ==
    IF boost
    THEN LET l == BoostedLevel(level)
         IN [level |-> l,
             vy |-> IF LadderHits(l) THEN BounceImpulse(l) ELSE vy,
             latch |-> latch,
             bounced |-> LadderHits(l),
             boost |-> FALSE]
    ELSE LET l == DecayedLevel(level)
         IN IF LadderHits(l)
            THEN [level |-> l, vy |-> BounceImpulse(l), latch |-> FALSE,
                  bounced |-> TRUE, boost |-> FALSE]
            ELSE [level |-> l, vy |-> 0, latch |-> FALSE, bounced |-> FALSE,
                  boost |-> FALSE]

\* mutant: the ground resolves a landing the way a platform does
GroundLanding_AsPlatform(level, vy, boost, latch) ==
    PlatformLanding(level, vy, boost, latch)

\* mutant: the final stop on the ground leaves the latch set
GroundLanding_KeepsLatch(level, vy, boost, latch) ==
    IF boost \/ LadderHits(DecayedLevel(level))
    THEN GroundLanding_AsPlatform(level, vy, boost, FALSE)
    ELSE IF ~latch
         THEN [level |-> 0, vy |-> BOUNCE_LEVEL0, latch |-> TRUE,
               bounced |-> TRUE, boost |-> FALSE]
         ELSE [level |-> 0, vy |-> 0, latch |-> TRUE,
               bounced |-> FALSE, boost |-> FALSE]

\* landing of an airborne player on the ground plane (lines 826-896): the
\* new level, velocity, latch, bouncedThisFrame and boost flag
GroundLanding(level, vy, boost, latch) ==
    IF boost
    THEN LET l == BoostedLevel(level)
         IN [level |-> l,
             vy |-> IF LadderHits(l) THEN BounceImpulse(l) ELSE vy,
             latch |-> FALSE,
             bounced |-> LadderHits(l),
             boost |-> FALSE]
    ELSE LET l == DecayedLevel(level)
         IN IF LadderHits(l)
            THEN [level |-> l, vy |-> BounceImpulse(l), latch |-> FALSE,
                  bounced |-> TRUE, boost |-> FALSE]
            ELSE IF ~latch
                 THEN [level |-> l, vy |-> BOUNCE_LEVEL0, latch |-> TRUE,
                       bounced |-> TRUE, boost |-> FALSE]
                 ELSE [level |-> l, vy |-> 0, latch |-> FALSE,
                       bounced |-> FALSE, boost |-> FALSE]

\* mutant: coming to rest leaves wasInAir set
LandingFlags_StaleAir(bounced) ==
    IF bounced
    THEN [isGrounded |-> FALSE, wasInAir |-> TRUE]
    ELSE [isGrounded |-> TRUE, wasInAir |-> TRUE]

\* grounded / airborne after a landing (lines 805-811, 903-909)
LandingFlags(bounced) ==
    IF bounced
    THEN [isGrounded |-> FALSE, wasInAir |-> TRUE]
    ELSE [isGrounded |-> TRUE, wasInAir |-> FALSE]

\* mutant: a fall-through platform is landed on at level 0 too
LandsOn_AnyLevel(p, px, py, vy, level) ==
    /\ px + PLAYER_SIZE > p.x
    /\ px < p.x + p.w
    /\ py + H(PLAYER_SIZE) <= H(p.y)
    /\ py + H(PLAYER_SIZE) + vy >= H(p.y)

\* the landing test of the platform loop (lines 724-730); py is the position
\* after this tick's displacement
LandsOn(p, px, py, vy, level) ==
    /\ (p.isSolid \/ level > 0)
    /\ px + PLAYER_SIZE > p.x
    /\ px < p.x + p.w
    /\ py + H(PLAYER_SIZE) <= H(p.y)
    /\ py + H(PLAYER_SIZE) + vy >= H(p.y)

\* the platforms that pass the landing test, by index
LandingSet(plats, px, py, vy, level) ==
    { i \in 1..Len(plats) : LandsOn(plats[i], px, py, vy, level) }

\* mutant: the loop picks the platform whose top is nearest
FirstLanding_Nearest(plats, px, py, vy, level) ==
    LET S == LandingSet(plats, px, py, vy, level)
    IN CHOOSE i \in S : \A j \in S : plats[i].y <= plats[j].y

\* the loop breaks at the first platform that passes (lines 719, 812)
FirstLanding(plats, px, py, vy, level) ==
    LET S == LandingSet(plats, px, py, vy, level)
    IN CHOOSE i \in S : \A j \in S : i <= j

\* mutant: the initial jump leaves the player grounded
InitialJumpState_Grounded ==
    [velocityY |-> BOUNCE_LEVEL1, bounceLevel |-> 1, isGrounded |-> TRUE]

\* what the initial jump assigns (lines 523-525)
InitialJumpState ==
    [velocityY |-> BOUNCE_LEVEL1, bounceLevel |-> 1, isGrounded |-> FALSE]

\* the player's y when standing on the ground plane (line 818), half units
PlayerGroundY == H(WORLD_HEIGHT - GROUND_HEIGHT - PLAYER_SIZE)

\* the player's column without a start point (line 106)
StartX == SCREEN_WIDTH \div 2 - PLAYER_SIZE \div 2

---------------------------------------------------------------------------
\* Geometry utilities (lines 196-241), milli units.

\* world units to milli units
Milli(n) == 1000 * n

Abs(a) == IF a < 0 THEN -a ELSE a

\* a / b rounded to the nearest integer, b > 0
RoundDiv(a, b) == (2 * a + b) \div (2 * b)

\* the product of two milli-unit values, in milli units
MulMilli(a, b) == RoundDiv(a * b, Milli(1))

\* the quotient of two milli-unit values, in milli units
DivMilli(a, b) == RoundDiv(a * Milli(1), b)

RECURSIVE SqrtSearch(_, _, _)
\* the largest s in lo..hi with s * s <= n
SqrtSearch(n, lo, hi) ==
    IF lo >= hi THEN lo
    ELSE LET mid == (lo + hi + 1) \div 2
         IN IF mid * mid <= n
            THEN SqrtSearch(n, mid, hi)
            ELSE SqrtSearch(n, lo, mid - 1)

\* std::sqrt of a squared length (milli units squared), to the nearest
\* milli unit
Sqrt(n) ==
    LET s == SqrtSearch(n, 0, 46340)
    IN IF n - s * s > s THEN s + 1 ELSE s

\* clampf (lines 197-199)
clampf(v, lo, hi) == Max(lo, Min(v, hi))

\* the push-out direction when the center is on or inside the rectangle
\* (lines 214-222): << dx, dy >>, milli units
DegenerateAxis(c, r) ==
    LET left == Abs(c.x - Milli(r.x))
        right == Abs(Milli(r.x + r.w) - c.x)
        top == Abs(c.y - Milli(r.y))
        bottom == Abs(Milli(r.y + r.h) - c.y)
        m == Min(Min(left, right), Min(top, bottom))
    IN IF m = left THEN << Milli(-1), 0 >>
       ELSE IF m = right THEN << Milli(1), 0 >>
       ELSE IF m = top THEN << 0, Milli(-1) >>
       ELSE << 0, Milli(1) >>

\* resolveCircleRect (lines 201-241): the circle after the call and the
\* value returned
resolveCircleRect(c, r, restitution) ==
    LET closestX == clampf(c.x, Milli(r.x), Milli(r.x + r.w))
        closestY == clampf(c.y, Milli(r.y), Milli(r.y + r.h))
        dx0 == c.x - closestX
        dy0 == c.y - closestY
        dist20 == dx0 * dx0 + dy0 * dy0
        rad2 == c.radius * c.radius
        \* an offset of a radius or more on one axis alone gives
        \* dist2 >= rad2; the squares are taken only below that
        apart == Abs(dx0) >= c.radius \/ Abs(dy0) >= c.radius
    IN IF apart \/ dist20 >= rad2 THEN [c |-> c, hit |-> FALSE]
       ELSE LET axis == DegenerateAxis(c, r)
                dx == IF dist20 = 0 THEN axis[1] ELSE dx0
                dy == IF dist20 = 0 THEN axis[2] ELSE dy0
                dist2 == IF dist20 = 0 THEN Milli(1) * Milli(1) ELSE dist20
                dist == Sqrt(dist2)
                nx == DivMilli(dx, dist)
                ny == DivMilli(dy, dist)
                penetration == c.radius - dist
                vn == MulMilli(c.vx, nx) + MulMilli(c.vy, ny)
                k == MulMilli(Milli(1) + restitution, vn)
            IN [c |-> [c EXCEPT
                         !.x = c.x + MulMilli(nx, penetration),
                         !.y = c.y + MulMilli(ny, penetration),
                         !.vx = IF vn < 0 THEN c.vx - MulMilli(k, nx)
                                ELSE c.vx,
                         !.vy = IF vn < 0 THEN c.vy - MulMilli(k, ny)
                                ELSE c.vy],
                hit |-> TRUE]

\* BALL_RESTITUTION (line 65), milli units
BALL_RESTITUTION == 720

\* Ball::radius (line 45), milli units
BALL_RADIUS == 18000

---------------------------------------------------------------------------
\* Ball tuning (lines 63-89) and the literals of the ball code, milli units.

BALL_GRAVITY == 500
BALL_FRICTION_GROUND == 920
BALL_AIR_DRAG == 995
BALL_PADDLE_MIN_UP == 6500
BALL_DRIBBLE_SPEED == 7000
BALL_NEAR_BOUNCE_GAP == 10000
BALL_MAX_VX == 14000
BALL_MAX_VY == 26000
\* an int, not a float
BASKETBALL_MAX_ENERGY == 12
BASKETBALL_BASE_UP == 6000
BASKETBALL_UP_PER_ENERGY == 1150
SHOT_VY_BASE == 14000
SHOT_VY_PER_ENERGY == 600
SHOT_VX_HALF_SCREEN_AT == 6000
SHOT_VX_FULL_SCREEN_AT == 11000
SHOT_VX_MAX == 18000

\* 8.0f, the horizontal speed of the weakest shot (line 511)
SHOT_VX_MIN == 8000
\* 0.90f, the sideways damping of a basketball that is not shooting (line 924)
BASKETBALL_DRAG == 900
\* 0.01f and 0.001f, below which the damped vx is zeroed (lines 925, 929)
BASKETBALL_VX_REST == 10
BALL_VX_REST == 1
\* 0.2f, below which the vy of a ball on the ground is zeroed (line 960)
BALL_VY_REST == 200
\* 0.5f, the margin of ballInAir (line 496)
BALL_AIR_MARGIN == 500
\* 0.82f, the restitution of the player's rectangle (line 989)
PLAYER_RESTITUTION == 820
\* 0.15f, the deadzone of the dribble (line 1010)
DRIBBLE_DEADZONE == 150
\* 0.4f, the share of playerDX in the dribble (line 1011)
DRIBBLE_CARRY == 400
\* 0.01f, the deadzone of playerDX in the facing (lines 985-986)
FACING_DEADZONE == 10

\* lastPlayerX (line 116): set from playerX at its declaration, before the
\* level file is read, and assigned nowhere else
lastPlayerX == StartX

\* (int) of a float held in half units: truncation towards zero
IntOfHalf(h) == IF h >= 0 THEN h \div 2 ELSE -((-h) \div 2)

\* half units to milli units
HalfToMilli(h) == 500 * h

\* playerRect (lines 487, 977)
PlayerRect(px, py) ==
    [x |-> px, y |-> IntOfHalf(py), w |-> PLAYER_SIZE, h |-> PLAYER_SIZE]

---------------------------------------------------------------------------
\* The ball's events: kind toggle (lines 364-377) and shot (lines 483-518).

\* mutant: the toggle keeps the energy
ToggleKind_KeepEnergy(b) ==
    [b EXCEPT !.kind = IF b.kind = "BALL_SOCCER" THEN "BALL_BASKETBALL"
                       ELSE "BALL_SOCCER",
              !.shooting = FALSE]

\* the ball after SDLK_TAB (lines 366-376)
\* a toggle that would leave the shot of a basketball in flight
ToggleKind_KeepShot(b) ==
    IF b.kind = "BALL_SOCCER"
    THEN [b EXCEPT !.kind = "BALL_BASKETBALL", !.energy = 0,
                   !.shooting = FALSE]
    ELSE [b EXCEPT !.kind = "BALL_SOCCER", !.energy = 0]

ToggleKind(b) ==
    IF b.kind = "BALL_SOCCER"
    THEN [b EXCEPT !.kind = "BALL_BASKETBALL", !.energy = 0,
                   !.shooting = FALSE]
    ELSE [b EXCEPT !.kind = "BALL_SOCCER", !.energy = 0, !.shooting = FALSE]

\* touching (lines 488-493): the squares are taken only when neither offset
\* exceeds the radius
Touching(b, r) ==
    LET closestX == clampf(b.x, Milli(r.x), Milli(r.x + r.w))
        closestY == clampf(b.y, Milli(r.y), Milli(r.y + r.h))
        dx == b.x - closestX
        dy == b.y - closestY
    IN /\ Abs(dx) <= b.radius
       /\ Abs(dy) <= b.radius
       /\ dx * dx + dy * dy <= b.radius * b.radius

\* ballGroundY (lines 495, 955)
BallGroundY(b) == Milli(WORLD_HEIGHT - GROUND_HEIGHT) - b.radius

\* ballInAir (line 496)
BallInAir(b) == b.y < BallGroundY(b) - BALL_AIR_MARGIN

\* mutant: the shot does not ask whether the player is in the air
ShotAllowed_Grounded(b, px, py, grounded) ==
    /\ b.kind = "BALL_BASKETBALL"
    /\ Touching(b, PlayerRect(px, py))
    /\ BallInAir(b)

\* the conditions of a shot (lines 486, 499)
ShotAllowed(b, px, py, grounded) ==
    /\ b.kind = "BALL_BASKETBALL"
    /\ Touching(b, PlayerRect(px, py))
    /\ BallInAir(b)
    /\ ~grounded

\* facing of the shot (lines 500-503)
ShotFacing(fo, lf) == IF fo < 0 THEN -1 ELSE IF fo > 0 THEN 1 ELSE lf

\* mutant: t is not clamped
ShotVelocityX_Unclamped(e) ==
    LET t == DivMilli(Milli(e) - SHOT_VX_HALF_SCREEN_AT,
                      SHOT_VX_FULL_SCREEN_AT - SHOT_VX_HALF_SCREEN_AT)
    IN SHOT_VX_MIN + MulMilli(t, SHOT_VX_MAX - SHOT_VX_MIN)

\* the horizontal speed of a shot with energy e (lines 505-511)
ShotVelocityX(e) ==
    LET t0 == DivMilli(Milli(e) - SHOT_VX_HALF_SCREEN_AT,
                       SHOT_VX_FULL_SCREEN_AT - SHOT_VX_HALF_SCREEN_AT)
        t == clampf(t0, 0, Milli(1))
    IN SHOT_VX_MIN + MulMilli(t, SHOT_VX_MAX - SHOT_VX_MIN)

\* the vertical velocity of a shot with energy e (line 515)
ShotVelocityY(e) == -(SHOT_VY_BASE + e * SHOT_VY_PER_ENERGY)

\* mutant: the shot spends the energy
ShotLaunch_SpendsEnergy(b, facing) ==
    [b EXCEPT !.shooting = TRUE,
              !.vx = facing * ShotVelocityX(b.energy),
              !.vy = ShotVelocityY(b.energy),
              !.energy = 0]

\* the ball after a shot (lines 513-515)
ShotLaunch(b, facing) ==
    [b EXCEPT !.shooting = TRUE,
              !.vx = facing * ShotVelocityX(b.energy),
              !.vy = ShotVelocityY(b.energy)]

---------------------------------------------------------------------------
\* The ball update (lines 916-1059), one operator per stage.

\* sideways damping (lines 923-930)
BallDamped(b) ==
    IF b.kind = "BALL_BASKETBALL" /\ ~b.shooting
    THEN LET v == MulMilli(b.vx, BASKETBALL_DRAG)
         IN IF Abs(v) < BASKETBALL_VX_REST THEN 0 ELSE v
    ELSE LET v == MulMilli(b.vx, BALL_AIR_DRAG)
         IN IF Abs(v) < BALL_VX_REST THEN 0 ELSE v

\* gravity, damping, clamp and displacement (lines 919-938)
BallIntegrated(b) ==
    LET vx == clampf(BallDamped(b), -BALL_MAX_VX, BALL_MAX_VX)
        vy == clampf(b.vy + BALL_GRAVITY, -BALL_MAX_VY, BALL_MAX_VY)
    IN [b EXCEPT !.vx = vx, !.vy = vy, !.x = b.x + vx, !.y = b.y + vy]

\* world bounds: left, right, top (lines 941-952)
BallInWorld(b) ==
    LET b1 == IF b.x - b.radius < 0
              THEN [b EXCEPT !.x = b.radius,
                             !.vx = MulMilli(-b.vx, BALL_RESTITUTION)]
              ELSE b
        b2 == IF b1.x + b1.radius > Milli(WORLD_WIDTH)
              THEN [b1 EXCEPT !.x = Milli(WORLD_WIDTH) - b1.radius,
                              !.vx = MulMilli(-b1.vx, BALL_RESTITUTION)]
              ELSE b1
    IN IF b2.y - b2.radius < 0
       THEN [b2 EXCEPT !.y = b2.radius,
                       !.vy = MulMilli(-b2.vy, BALL_RESTITUTION)]
       ELSE b2

\* the ground plane (lines 955-966)
BallOnGround(b) ==
    IF b.y > BallGroundY(b)
    THEN LET vy == IF b.vy > 0 THEN MulMilli(-b.vy, BALL_RESTITUTION)
                   ELSE b.vy
         IN [b EXCEPT !.y = BallGroundY(b),
                      !.vy = IF Abs(vy) < BALL_VY_REST THEN 0 ELSE vy,
                      !.vx = MulMilli(b.vx, BALL_FRICTION_GROUND),
                      !.shooting = IF b.kind = "BALL_BASKETBALL" THEN FALSE
                                   ELSE b.shooting]
    ELSE b

\* mutant: every platform stops the ball
ShouldCollide_Always(p, level) == TRUE

\* shouldCollide of the ball's platform loop (line 971)
ShouldCollide(p, level) == p.isSolid \/ level > 0

RECURSIVE BallOnPlatforms(_, _, _, _)
\* the platform loop (lines 969-974), from platform i on
BallOnPlatforms(b, plats, i, level) ==
    IF i > Len(plats) THEN b
    ELSE IF ShouldCollide(plats[i], level)
         THEN BallOnPlatforms(
                  resolveCircleRect(b, plats[i], BALL_RESTITUTION).c,
                  plats, i + 1, level)
         ELSE BallOnPlatforms(b, plats, i + 1, level)

\* the platforms the loop has called resolveCircleRect with, by index
ResolvedPlatforms(plats, level) ==
    { i \in 1..Len(plats) : ShouldCollide(plats[i], level) }

\* playerDX (line 979), milli units
PlayerDX(px) == Milli(px - lastPlayerX)

\* facing of the player contact (lines 982-987)
Facing(fo, px, lf) ==
    IF fo < 0 THEN -1
    ELSE IF fo > 0 THEN 1
    ELSE IF PlayerDX(px) < -FACING_DEADZONE THEN -1
    ELSE IF PlayerDX(px) > FACING_DEADZONE THEN 1
    ELSE lf

\* mutant: the energy is not capped
EnergyAfterBounce_NoCap(e) == e + 1

\* the energy after a dribble bounce (lines 994, 1030)
EnergyAfterBounce(e) == Min(BASKETBALL_MAX_ENERGY, e + 1)

\* mutant: the dribble ignores the energy
BasketballUp_Flat(e) == -BASKETBALL_BASE_UP

\* the basketball's upward velocity at energy e (lines 997, 1032)
BasketballUp(e) == -(BASKETBALL_BASE_UP + e * BASKETBALL_UP_PER_ENERGY)

\* mutant: the pop has no minimum
PopUp_NoMinimum(vy) == -Abs(vy)

\* the soccer-style pop (lines 1006-1007, 1036-1037)
PopUp(vy) == -Max(BALL_PADDLE_MIN_UP, Abs(vy))

\* offset (lines 1002-1003): the ball's x from the player's center over half
\* the player's width, clamped
ContactOffset(b, px) ==
    clampf(DivMilli(b.x - (Milli(px) + Milli(PLAYER_SIZE) \div 2),
                    Milli(PLAYER_SIZE) \div 2),
           Milli(-1), Milli(1))

\* the horizontal velocity of the soccer-style contact (lines 1010-1015)
DribbleVX(offset, facing, playerDX) ==
    IF facing # 0 /\ offset * facing > DRIBBLE_DEADZONE
    THEN facing * MulMilli(BALL_DRIBBLE_SPEED, Abs(offset))
         + MulMilli(playerDX, DRIBBLE_CARRY)
    ELSE 0

\* mutant: the proximity trigger reaches twice as far
NearBounce_Wide(b, r) ==
    LET closestX == clampf(b.x, Milli(r.x), Milli(r.x + r.w))
        closestY == clampf(b.y, Milli(r.y), Milli(r.y + r.h))
        dx == b.x - closestX
        dy == b.y - closestY
        reach == b.radius + 2 * BALL_NEAR_BOUNCE_GAP
    IN /\ Abs(dx) <= reach
       /\ Abs(dy) <= reach
       /\ LET gap == Sqrt(dx * dx + dy * dy) - b.radius
          IN gap > 0 /\ gap <= 2 * BALL_NEAR_BOUNCE_GAP

\* gap > 0 && gap <= BALL_NEAR_BOUNCE_GAP (lines 1020-1027): the squares are
\* taken only when neither offset exceeds radius + gap
NearBounce(b, r) ==
    LET closestX == clampf(b.x, Milli(r.x), Milli(r.x + r.w))
        closestY == clampf(b.y, Milli(r.y), Milli(r.y + r.h))
        dx == b.x - closestX
        dy == b.y - closestY
        reach == b.radius + BALL_NEAR_BOUNCE_GAP
    IN /\ Abs(dx) <= reach
       /\ Abs(dy) <= reach
       /\ LET gap == Sqrt(dx * dx + dy * dy) - b.radius
          IN gap > 0 /\ gap <= BALL_NEAR_BOUNCE_GAP

\* what the player's part of the update hands on: the ball after it and
\* what it found
Interaction(c, reflected, hitPlayer, near, soccer, offset, facing) ==
    [c |-> c, reflected |-> reflected, hitPlayer |-> hitPlayer,
     near |-> near, soccer |-> soccer, offset |-> offset, facing |-> facing]

\* the branches after resolveCircleRect on the player (lines 990-1040): c
\* is the ball as that call left it, hitPlayer what it returned
Contact(c, hitPlayer, playerRect, facing, px, bounced) ==
    IF hitPlayer
    THEN IF c.kind = "BALL_BASKETBALL" /\ ~c.shooting
         THEN LET e == IF bounced THEN EnergyAfterBounce(c.energy)
                       ELSE c.energy
              IN Interaction([c EXCEPT !.energy = e, !.vx = 0,
                                       !.vy = BasketballUp(e)],
                             c, TRUE, FALSE, FALSE, 0, facing)
         ELSE LET offset == ContactOffset(c, px)
              IN Interaction([c EXCEPT !.vy = PopUp(c.vy),
                                       !.vx = DribbleVX(offset, facing,
                                                        PlayerDX(px))],
                             c, TRUE, FALSE, TRUE, offset, facing)
    ELSE IF bounced /\ NearBounce(c, playerRect)
         THEN IF c.kind = "BALL_BASKETBALL"
              THEN LET e == EnergyAfterBounce(c.energy)
                   IN Interaction([c EXCEPT !.energy = e, !.vx = 0,
                                            !.vy = BasketballUp(e)],
                                  c, FALSE, TRUE, FALSE, 0, facing)
              ELSE Interaction([c EXCEPT !.vx = 0, !.vy = PopUp(c.vy)],
                               c, FALSE, TRUE, TRUE, 0, facing)
         ELSE Interaction(c, c, FALSE, FALSE, FALSE, 0, facing)

\* resolveCircleRect on the player handed to the branches (line 989)
ContactAfter(res, playerRect, facing, px, bounced) ==
    Contact(res.c, res.hit, playerRect, facing, px, bounced)

\* the player's part of the update (lines 977-1040)
PlayerInteraction(b, px, py, fo, lf, bounced) ==
    ContactAfter(resolveCircleRect(b, PlayerRect(px, py), PLAYER_RESTITUTION),
                 PlayerRect(px, py), Facing(fo, px, lf), px, bounced)

\* the final clamp (lines 1043-1044)
BallClamped(b) ==
    [b EXCEPT !.vx = clampf(b.vx, -BALL_MAX_VX, BALL_MAX_VX),
              !.vy = clampf(b.vy, -BALL_MAX_VY, BALL_MAX_VY)]

\* the test of the scoring loop (lines 1048-1049)
InBasket(b, r) ==
    /\ b.x >= Milli(r.x) /\ b.x <= Milli(r.x + r.w)
    /\ b.y >= Milli(r.y) /\ b.y <= Milli(r.y + r.h)

\* mutant: the reset ends the shot
ResetBall_EndsShot(b, px, py) ==
    [b EXCEPT !.x = Milli(px + PLAYER_SIZE + 20),
              !.y = HalfToMilli(py) + Milli(PLAYER_SIZE - 40),
              !.vx = 0, !.vy = 0, !.shooting = FALSE]

\* the reset of a scored ball (lines 1052-1055)
ResetBall(b, px, py) ==
    [b EXCEPT !.x = Milli(px + PLAYER_SIZE + 20),
              !.y = HalfToMilli(py) + Milli(PLAYER_SIZE - 40),
              !.vx = 0, !.vy = 0]

RECURSIVE Scoring_NoBreak(_, _, _, _, _)
\* mutant: the loop goes on after a score
Scoring_NoBreak(b, bsk, i, px, py) ==
    IF i > Len(bsk) THEN [c |-> b, resets |-> 0, examined |-> i - 1]
    ELSE LET hitB == InBasket(b, bsk[i])
             rest == Scoring_NoBreak(IF hitB THEN ResetBall(b, px, py) ELSE b,
                                     bsk, i + 1, px, py)
         IN [rest EXCEPT !.resets = @ + (IF hitB THEN 1 ELSE 0)]

RECURSIVE Scoring(_, _, _, _, _)
\* the scoring loop (lines 1047-1058), from basket i on: the ball after it,
\* the resets done and the baskets examined
Scoring(b, bsk, i, px, py) ==
    IF i > Len(bsk) THEN [c |-> b, resets |-> 0, examined |-> i - 1]
    ELSE IF InBasket(b, bsk[i])
         THEN [c |-> ResetBall(b, px, py), resets |-> 1, examined |-> i]
         ELSE Scoring(b, bsk, i + 1, px, py)

\* the record of an update: b the ball before it, atPlayer the ball as it
\* reached the player, pi the player's part, atScoring the ball the scoring
\* loop tested, sc that loop's result
Updated(b, atPlayer, pi, atScoring, sc, plats, bounced, level) ==
    [c |-> sc.c,
     rec |-> [ran |-> TRUE, shot |-> FALSE, shotBefore |-> FALSE,
              refused |-> FALSE,
              tabFrom |-> [kind |-> "none", energy |-> 0,
                           shooting |-> FALSE],
              landing |-> FALSE, bounced |-> bounced, level |-> level,
              resolved |-> ResolvedPlatforms(plats, level),
              hitPlayer |-> pi.hitPlayer, near |-> pi.near,
              soccer |-> pi.soccer, offset |-> pi.offset,
              facing |-> pi.facing,
              incomingVy |-> atPlayer.vy, reflectedVy |-> pi.reflected.vy,
              afterVx |-> pi.c.vx, afterVy |-> pi.c.vy,
              scoreX |-> atScoring.x, scoreY |-> atScoring.y,
              resets |-> sc.resets, examined |-> sc.examined,
              preEnergy |-> b.energy, preShooting |-> b.shooting,
              endX |-> sc.c.x, endY |-> sc.c.y,
              endVx |-> sc.c.vx, endVy |-> sc.c.vy]]

\* the final clamp and the scoring loop (lines 1042-1058)
UpdateScored(b, atPlayer, pi, atScoring, plats, bsk, px, py, bounced, level) ==
    Updated(b, atPlayer, pi, atScoring, Scoring(atScoring, bsk, 1, px, py),
            plats, bounced, level)

\* the player's part (lines 976-1040) and what follows it
UpdateAtPlayer(b, atPlayer, pi, plats, bsk, px, py, bounced, level) ==
    UpdateScored(b, atPlayer, pi, BallClamped(pi.c), plats, bsk, px, py,
                 bounced, level)

\* the update from the player's part on, atPlayer the ball after the
\* platform loop
UpdateFrom(b, atPlayer, plats, bsk, px, py, fo, lf, bounced, level) ==
    UpdateAtPlayer(b, atPlayer,
                   PlayerInteraction(atPlayer, px, py, fo, lf, bounced),
                   plats, bsk, px, py, bounced, level)

\* the whole update (lines 917-1059) of ball b: the ball after it and the
\* record of its stages
UpdateBall(b, plats, bsk, px, py, fo, lf, bounced, level) ==
    UpdateFrom(b,
               BallOnPlatforms(BallOnGround(BallInWorld(BallIntegrated(b))),
                               plats, 1, level),
               plats, bsk, px, py, fo, lf, bounced, level)

---------------------------------------------------------------------------
\* State after construction (lines 105-144, 294-344).

\* the Ball after construction (lines 38-51, 138-143): placed from the
\* player's default position, before a start point is applied
InitialBall ==
    [kind |-> "BALL_SOCCER",
     x |-> Milli(StartX + PLAYER_SIZE + 20),
     y |-> Milli(WORLD_HEIGHT - GROUND_HEIGHT - PLAYER_SIZE + PLAYER_SIZE - 40),
     vx |-> 0, vy |-> 0,
     radius |-> BALL_RADIUS,
     active |-> TRUE,
     energy |-> 0,
     shooting |-> FALSE]

\* no call of resolveCircleRect is being examined
NoRect == [x |-> 0, y |-> 0, w |-> 0, h |-> 0]

\* no SDLK_TAB has been handled in this poll loop
NoTab == [kind |-> "none", energy |-> 0, shooting |-> FALSE]

\* the record of an iteration whose ball update did not run, ball b left as
\* it was.  Fields: ran (the update ran); shot (a shot was launched in the
\* open poll loop) and shotBefore (in the poll loop before the update);
\* refused (a shoot press of the open poll loop launched nothing);
\* tabFrom (kind, energy, shooting before the last toggle of the open poll
\* loop); landing (the iteration resolved a landing of an airborne player);
\* bounced and level (bouncedThisFrame and bounceLevel as the update read
\* them); resolved (the platforms resolveCircleRect was called with);
\* hitPlayer, near, soccer (direct contact, proximity trigger, handled
\* soccer-style); offset and facing of the contact; incomingVy (vy when
\* the ball reached the player), reflectedVy (after resolveCircleRect on
\* the player), afterVx, afterVy (after the player's part); scoreX, scoreY
\* (the center the scoring loop tested); resets, examined (of that loop);
\* preEnergy, preShooting (energy and flag before the update); endX .. endVy (the ball as the
\* iteration left it).
NotUpdated(b) ==
    [ran |-> FALSE, shot |-> FALSE, shotBefore |-> FALSE, refused |-> FALSE,
     tabFrom |-> NoTab,
     landing |-> FALSE, bounced |-> FALSE, level |-> 0, resolved |-> {},
     hitPlayer |-> FALSE, near |-> FALSE, soccer |-> FALSE,
     offset |-> 0, facing |-> 0,
     incomingVy |-> 0, reflectedVy |-> 0, afterVx |-> 0, afterVy |-> 0,
     scoreX |-> 0, scoreY |-> 0, resets |-> 0, examined |-> 0,
     preEnergy |-> b.energy, preShooting |-> b.shooting,
     endX |-> b.x, endY |-> b.y, endVx |-> b.vx, endVy |-> b.vy]

\* no ball update has run yet
NoUpdate == NotUpdated(InitialBall)

\* the player as a tick finds it, after the poll loop (line 625): position,
\* velocity, grounded and airborne flags, level, boost flag and latch
StartOfTick ==
    [taken |-> TRUE, y |-> playerY, vy |-> velocityY, grounded |-> isGrounded,
     air |-> wasInAir, level |-> bounceLevel, boost |-> spacePressedThisFall,
     latch |-> hadSmallRebound]

\* between two ticks
NoStart ==
    [taken |-> FALSE, y |-> 0, vy |-> 0, grounded |-> FALSE, air |-> FALSE,
     level |-> 0, boost |-> FALSE, latch |-> FALSE]

\* the player's y after construction, world units: the default (line 107),
\* or the y of the start point of the level file (line 331), here a start
\* point in the air.  Start points are taken inside the playable region
\* (the player's bottom edge at or above the ground plane).
\* The editor's state as constructed (lines 12-19, 125-129) and the level
\* file. level.txt is a text of numbers separated by white space: the
\* model keeps the sequence of the numbers. The loop of game mode neither
\* reads nor writes the editor's state and the file.
Tools == { "TOOL_PLATFORM_SOLID", "TOOL_PLATFORM_FALLTHROUGH", "TOOL_START",
           "TOOL_FINISH", "TOOL_DELETE", "TOOL_BASKET" }
InitialPoints ==
    [hasStart |-> FALSE,
     start |-> << 100, SCREEN_HEIGHT - GROUND_HEIGHT - PLAYER_SIZE >>,
     hasFinish |-> FALSE,
     finish |-> << SCREEN_WIDTH - 100,
                   SCREEN_HEIGHT - GROUND_HEIGHT - PLAYER_SIZE >>]
NoSave == [done |-> FALSE, platforms |-> << >>, baskets |-> << >>]
EditorIdle ==
    /\ currentTool = "TOOL_PLATFORM_SOLID"
    /\ points = InitialPoints
    /\ levelFile = [exists |-> FALSE, text |-> << >>]
    /\ lastSave = NoSave

StartYs == { WORLD_HEIGHT - GROUND_HEIGHT - PLAYER_SIZE, 1216 }

Init ==
    /\ pc = "events"
    /\ playerX = StartX
    /\ playerY \in { H(y) : y \in StartYs }
    /\ velocityY = 0
    /\ isGrounded = TRUE
    /\ wasInAir = FALSE
    /\ bounceLevel = 0
    /\ spacePressed = FALSE
    /\ spacePressedThisFall = FALSE
    /\ hadSmallRebound = FALSE
    /\ faceOffset = 0
    /\ lastFacing = 1
    /\ editorMode = FALSE
    /\ platforms \in Levels
    /\ bouncedThisFrame = FALSE
    /\ landedOnPlatform = FALSE
    /\ landedOnGround = FALSE
    /\ airLanding = FALSE
    /\ landingLevel = 0
    /\ landingBoost = FALSE
    /\ landingLatch = FALSE
    /\ initialJump = FALSE
    /\ boostsThisFall = 0
    /\ landedOn = 0
    /\ tickStart = NoStart
    /\ quiet = FALSE
    /\ ball = InitialBall
    /\ rect = NoRect
    /\ hit = FALSE
    /\ baskets = << >>
    /\ upd = NoUpdate
    /\ ticks = 0
    /\ EditorIdle

---------------------------------------------------------------------------
\* Event handlers (the poll loop, lines 352-623).

frameLocals == << bouncedThisFrame, landedOnPlatform, landedOnGround,
                  airLanding, landingLevel, landingBoost, landingLatch >>

landingHistory == << airLanding, landingLevel, landingBoost, landingLatch >>

\* SDLK_SPACE pressed (lines 519-567).  In editor mode the branch of line 379
\* takes every key press that is not ESC or P, and SPACE matches none of its
\* cases: the press changes nothing.
KeyDownSpace ==
    /\ pc = "events"
    /\ ~editorMode
    /\ spacePressed' = TRUE
    /\ IF isGrounded /\ bounceLevel = 0
       THEN /\ velocityY' = InitialJumpState.velocityY
            /\ bounceLevel' = InitialJumpState.bounceLevel
            /\ isGrounded' = InitialJumpState.isGrounded
            /\ initialJump' = TRUE
            /\ UNCHANGED << spacePressedThisFall, boostsThisFall >>
       ELSE IF /\ PressMayBoost
               /\ WindowAccepts(platforms, playerX, playerY, bounceLevel)
            THEN /\ spacePressedThisFall' = TRUE
                 /\ velocityY' = velocityY + DOWNWARD_FORCE
                 /\ boostsThisFall' = boostsThisFall + 1
                 /\ UNCHANGED << bounceLevel, isGrounded, initialJump >>
            ELSE UNCHANGED << velocityY, bounceLevel, isGrounded,
                              initialJump, spacePressedThisFall,
                              boostsThisFall >>
    /\ UNCHANGED << pc, playerX, playerY, wasInAir, hadSmallRebound,
                    faceOffset, lastFacing, editorMode, platforms,
                    frameLocals >>
    /\ UNCHANGED circleVars
    /\ UNCHANGED tickHistory

\* SDLK_SPACE released (lines 569-573)
KeyUpSpace ==
    /\ pc = "events"
    /\ spacePressed' = FALSE
    /\ UNCHANGED << pc, playerX, playerY, velocityY, isGrounded, wasInAir,
                    bounceLevel, spacePressedThisFall, hadSmallRebound,
                    faceOffset, lastFacing, editorMode, platforms,
                    frameLocals, initialJump, boostsThisFall >>
    /\ UNCHANGED circleVars
    /\ UNCHANGED tickHistory

\* SDLK_p pressed: editor mode on/off (lines 360-363)
KeyDownP ==
    /\ pc = "events"
    /\ editorMode' = ~editorMode
    /\ UNCHANGED << pc, playerX, playerY, velocityY, isGrounded, wasInAir,
                    bounceLevel, spacePressed, spacePressedThisFall,
                    hadSmallRebound, faceOffset, lastFacing, platforms,
                    frameLocals, initialJump, boostsThisFall >>
    /\ UNCHANGED circleVars
    /\ UNCHANGED tickHistory

---------------------------------------------------------------------------
\* The tick (lines 625-913).

\* the keyboard state sampled after the poll loop: left, right or neither
\* (lines 626-643).  The environment keeps the player within MaxWalk steps
\* of its start column.
Keys == { "left", "right", "none" }

MayPress(key) ==
    /\ key = "left" => playerX - MOVE_SPEED >= StartX - MaxWalk * MOVE_SPEED
    /\ key = "right" => playerX + MOVE_SPEED <= StartX + MaxWalk * MOVE_SPEED

Move ==
    /\ pc = "events"
    /\ \E key \in Keys :
         /\ MayPress(key)
         /\ IF key = "left"
            THEN /\ playerX' = Max(0, playerX - MOVE_SPEED)
                 /\ faceOffset' = -5
                 /\ lastFacing' = -1
            ELSE IF key = "right"
                 THEN /\ playerX' = Min(WORLD_WIDTH - PLAYER_SIZE,
                                        playerX + MOVE_SPEED)
                      /\ faceOffset' = 5
                      /\ lastFacing' = 1
                 ELSE /\ faceOffset' = 0
                      /\ UNCHANGED << playerX, lastFacing >>
    /\ pc' = "held"
    /\ UNCHANGED << playerY, velocityY, isGrounded, wasInAir, bounceLevel,
                    spacePressed, spacePressedThisFall, hadSmallRebound,
                    editorMode, platforms, frameLocals, initialJump,
                    boostsThisFall >>
    /\ UNCHANGED circleVars
    /\ tickStart' = StartOfTick
    /\ UNCHANGED << landedOn, quiet >>

\* the per-tick check of the held jump key (lines 646-679)
HeldCheck ==
    /\ pc = "held"
    /\ IF /\ HeldMayBoost
          /\ WindowAccepts(platforms, playerX, playerY, bounceLevel)
       THEN /\ spacePressedThisFall' = TRUE
            /\ velocityY' = velocityY + DOWNWARD_FORCE
            /\ boostsThisFall' = boostsThisFall + 1
       ELSE UNCHANGED << spacePressedThisFall, velocityY, boostsThisFall >>
    /\ pc' = "integrate"
    /\ UNCHANGED << playerX, playerY, isGrounded, wasInAir, bounceLevel,
                    spacePressed, hadSmallRebound, faceOffset, lastFacing,
                    editorMode, platforms, frameLocals, initialJump >>
    /\ UNCHANGED circleVars
    /\ UNCHANGED tickHistory

\* gravity and the vertical displacement (lines 681-687), in game mode and
\* in editor mode alike.  The camera update that follows (lines 689-714)
\* writes cameraX and cameraY only, which nothing below reads.
Integrate ==
    /\ pc = "integrate"
    /\ velocityY' = IF ~isGrounded THEN velocityY + GRAVITY ELSE velocityY
    /\ playerY' = playerY + velocityY'
    /\ bouncedThisFrame' = FALSE
    /\ pc' = "platform"
    /\ UNCHANGED << playerX, isGrounded, wasInAir, bounceLevel, spacePressed,
                    spacePressedThisFall, hadSmallRebound, faceOffset,
                    lastFacing, editorMode, platforms, landedOnPlatform,
                    landedOnGround, landingHistory, initialJump,
                    boostsThisFall >>
    /\ UNCHANGED circleVars
    /\ UNCHANGED tickHistory

\* the platform loop (lines 716-815)
PlatformCollision ==
    /\ pc = "platform"
    /\ IF /\ ~editorMode
          /\ velocityY >= 0
          /\ LandingSet(platforms, playerX, playerY, velocityY,
                        bounceLevel) # {}
       THEN LET pRect == platforms[FirstLanding(platforms, playerX, playerY,
                                                velocityY, bounceLevel)]
                r == PlatformLanding(bounceLevel, velocityY,
                                     spacePressedThisFall, hadSmallRebound)
            IN /\ playerY' = H(pRect.y - PLAYER_SIZE)
               /\ landedOnPlatform' = TRUE
               /\ landedOn' = FirstLanding(platforms, playerX, playerY,
                                           velocityY, bounceLevel)
               /\ airLanding' = wasInAir
               /\ landingLevel' = bounceLevel
               /\ landingBoost' = spacePressedThisFall
               /\ landingLatch' = hadSmallRebound
               /\ boostsThisFall' = 0
               /\ IF wasInAir
                  THEN /\ bounceLevel' = r.level
                       /\ velocityY' = r.vy
                       /\ hadSmallRebound' = r.latch
                       /\ bouncedThisFrame' = r.bounced
                       /\ spacePressedThisFall' = r.boost
                  ELSE /\ velocityY' = 0
                       /\ UNCHANGED << bounceLevel, hadSmallRebound,
                                       bouncedThisFrame,
                                       spacePressedThisFall >>
               /\ isGrounded' = LandingFlags(bouncedThisFrame').isGrounded
               /\ wasInAir' = LandingFlags(bouncedThisFrame').wasInAir
       ELSE /\ landedOnPlatform' = FALSE
            /\ landedOn' = 0
            /\ UNCHANGED << playerY, landingHistory, boostsThisFall,
                            bounceLevel, velocityY, hadSmallRebound,
                            bouncedThisFrame, spacePressedThisFall,
                            isGrounded, wasInAir >>
    /\ pc' = "ground"
    /\ UNCHANGED << playerX, spacePressed, faceOffset, lastFacing,
                    editorMode, platforms, landedOnGround, initialJump >>
    /\ UNCHANGED circleVars
    /\ UNCHANGED << tickStart, quiet >>

\* the ground plane and the airborne fallback (lines 817-913)
GroundCollision ==
    /\ pc = "ground"
    /\ IF ~landedOnPlatform /\ playerY >= PlayerGroundY
       THEN LET r == GroundLanding(bounceLevel, velocityY,
                                   spacePressedThisFall, hadSmallRebound)
            IN /\ playerY' = PlayerGroundY
               /\ landedOnGround' = TRUE
               /\ airLanding' = wasInAir
               /\ landingLevel' = bounceLevel
               /\ landingBoost' = spacePressedThisFall
               /\ landingLatch' = hadSmallRebound
               /\ boostsThisFall' = 0
               /\ IF wasInAir
                  THEN /\ bounceLevel' = r.level
                       /\ velocityY' = r.vy
                       /\ hadSmallRebound' = r.latch
                       /\ bouncedThisFrame' = r.bounced
                       /\ spacePressedThisFall' = r.boost
                  ELSE /\ velocityY' = 0
                       /\ UNCHANGED << bounceLevel, hadSmallRebound,
                                       bouncedThisFrame,
                                       spacePressedThisFall >>
               /\ isGrounded' = LandingFlags(bouncedThisFrame').isGrounded
               /\ wasInAir' = LandingFlags(bouncedThisFrame').wasInAir
       ELSE /\ IF ~landedOnPlatform
               THEN wasInAir' = TRUE /\ isGrounded' = FALSE
               ELSE UNCHANGED << wasInAir, isGrounded >>
            /\ UNCHANGED << playerY, landedOnGround, landingHistory,
                            boostsThisFall, bounceLevel, velocityY,
                            hadSmallRebound, bouncedThisFrame,
                            spacePressedThisFall >>
    /\ pc' = "render"
    /\ UNCHANGED << playerX, spacePressed, faceOffset, lastFacing,
                    editorMode, platforms, landedOnPlatform, initialJump >>
    /\ UNCHANGED circleVars
    /\ UNCHANGED tickHistory

\* drawing reads the state and changes none of it (lines 1061-1370); the
\* frame's locals end with the iteration
Render ==
    /\ pc = "render"
    /\ pc' = "events"
    /\ bouncedThisFrame' = FALSE
    /\ landedOnPlatform' = FALSE
    /\ landedOnGround' = FALSE
    /\ airLanding' = FALSE
    /\ landingLevel' = 0
    /\ landingBoost' = FALSE
    /\ landingLatch' = FALSE
    /\ initialJump' = FALSE
    /\ UNCHANGED << playerX, playerY, velocityY, isGrounded, wasInAir,
                    bounceLevel, spacePressed, spacePressedThisFall,
                    hadSmallRebound, faceOffset, lastFacing, editorMode,
                    platforms, boostsThisFall >>
    /\ landedOn' = 0
    /\ tickStart' = NoStart
    /\ ticks' = Min(ticks + 1, MaxTicks)
    /\ UNCHANGED << quiet, ball, rect, hit, baskets, editorVars, upd >>

Next ==
    \/ KeyDownSpace
    \/ KeyUpSpace
    \/ KeyDownP
    \/ Move
    \/ HeldCheck
    \/ Integrate
    \/ PlatformCollision
    \/ GroundCollision
    \/ Render

Spec == Init /\ [][Next]_vars

---------------------------------------------------------------------------
\* The ball in the main loop: its two key presses, its update, and the
\* specification of the loop with the ball in it.

playerVars == << playerX, playerY, velocityY, isGrounded, wasInAir,
                 bounceLevel, spacePressed, spacePressedThisFall,
                 hadSmallRebound, faceOffset, lastFacing, editorMode,
                 platforms >>

\* SDLK_TAB pressed (lines 364-377); in editor mode the press reaches the
\* branch of line 379 and changes nothing
KeyDownTab ==
    /\ pc = "events"
    /\ IF ~editorMode
       THEN /\ ball' = ToggleKind(ball)
            /\ upd' = [upd EXCEPT !.tabFrom = [kind |-> ball.kind,
                                               energy |-> ball.energy,
                                               shooting |-> ball.shooting]]
       ELSE UNCHANGED << ball, upd >>
    /\ UNCHANGED << pc, playerVars, frameLocals, initialJump, boostsThisFall,
                    tickHistory, rect, hit, baskets, editorVars, ticks >>

\* SDLK_e pressed (lines 483-518); in editor mode the press reaches the
\* branch of line 379 and changes nothing
KeyDownE ==
    /\ pc = "events"
    /\ IF ~editorMode /\ ShotAllowed(ball, playerX, playerY, isGrounded)
       THEN /\ ball' = ShotLaunch(ball, ShotFacing(faceOffset, lastFacing))
            /\ upd' = [upd EXCEPT !.shot = TRUE]
       ELSE /\ upd' = [upd EXCEPT !.refused = TRUE]
            /\ UNCHANGED ball
    /\ UNCHANGED << pc, playerVars, frameLocals, initialJump, boostsThisFall,
                    tickHistory, rect, hit, baskets, editorVars, ticks >>

\* the ball update (lines 916-1059), the last step of the iteration before
\* the drawing, which changes no state; the frame's locals end with the
\* iteration
BallUpdate ==
    /\ pc = "render"
    /\ IF ~editorMode /\ ball.active
       THEN LET u == UpdateBall(ball, platforms, baskets, playerX, playerY,
                                faceOffset, lastFacing, bouncedThisFrame,
                                bounceLevel)
            IN /\ ball' = u.c
               /\ upd' = [u.rec EXCEPT !.shotBefore = upd.shot,
                                       !.landing = airLanding]
       ELSE /\ ball' = ball
            /\ upd' = [NotUpdated(ball) EXCEPT !.shotBefore = upd.shot,
                                               !.landing = airLanding]
    /\ ticks' = Min(ticks + 1, MaxTicks)
    /\ pc' = "events"
    /\ bouncedThisFrame' = FALSE
    /\ landedOnPlatform' = FALSE
    /\ landedOnGround' = FALSE
    /\ airLanding' = FALSE
    /\ landingLevel' = 0
    /\ landingBoost' = FALSE
    /\ landingLatch' = FALSE
    /\ initialJump' = FALSE
    /\ landedOn' = 0
    /\ tickStart' = NoStart
    /\ UNCHANGED << playerVars, boostsThisFall, quiet, rect, hit, baskets, editorVars >>

\* a new iteration may still be completed
Running == ticks < MaxTicks

\* the player in mid-play, as Spec reaches it on the empty level: y and vy
\* in half units
PlayerRest ==
    [y |-> PlayerGroundY, vy |-> 0, grounded |-> TRUE, air |-> FALSE,
     level |-> 0, latch |-> FALSE]
\* falling at level 1, one tick above the ground
PlayerFall1 ==
    [y |-> PlayerGroundY - 19, vy |-> 18, grounded |-> FALSE, air |-> TRUE,
     level |-> 1, latch |-> FALSE]
\* rising at level 1, one tick after the rebound
PlayerRise1 ==
    [y |-> PlayerGroundY - 19, vy |-> -19, grounded |-> FALSE, air |-> TRUE,
     level |-> 1, latch |-> FALSE]
\* falling after the small rebound, one tick above the ground
PlayerSettle ==
    [y |-> PlayerGroundY - 5, vy |-> 4, grounded |-> FALSE, air |-> TRUE,
     level |-> 0, latch |-> TRUE]

\* the ball as earlier play has left it: kind, energy, shooting
BallSoccer == [kind |-> "BALL_SOCCER", energy |-> 0, shooting |-> FALSE]
Basketballs ==
    { [kind |-> "BALL_BASKETBALL", energy |-> e, shooting |-> FALSE] :
        e \in {0, 6, 11, 12} }
    \cup
    { [kind |-> "BALL_BASKETBALL", energy |-> e, shooting |-> TRUE] :
        e \in {6, 12} }
BasketballMid ==
    { [kind |-> "BALL_BASKETBALL", energy |-> 6, shooting |-> sh] :
        sh \in BOOLEAN }

\* ... and where: x, y, vx, vy in milli units
\* beside the player, where the ball is constructed and reset
BallBeside == << 692000, 1336000, 0, 0 >>
\* above the player's top, falling
BallAbove == << 656000, 1284000, 0, 10000 >>
\* against the player's left side
BallLeft == << 600000, 1340000, 0, 0 >>
\* in the top-left corner of the world, and at its right wall
BallCorner == << 20000, 20000, -10000, -20000 >>
BallRight == << 10220000, 1300000, 12000, 0 >>
\* inside both baskets, on the left edge of the first, and flying into them
BallInBoth == << 720000, 1330000, 0, 0 >>
BallOnEdge == << 704000, 1330000, 0, 0 >>
BallFlying == << 690000, 1320000, 14000, -3000 >>
\* far from the player, a tick above the ground, coming down
BallLanding == << 900000, 1350000, 3000, 12000 >>
\* rolling along the ground towards the player, about to pass under it
BallRolling == << 590000, 1358000, 12000, 0 >>
\* above the fall-through platform and above the solid one
BallOverFall == << 560000, 1290000, 0, 5000 >>
BallOverSolid == << 760000, 1290000, 0, 5000 >>

\* baskets of the editor's size, overlapping (line 616)
BasketB1 == [x |-> 704, y |-> 1280, w |-> 128, h |-> 64]
BasketB2 == [x |-> 672, y |-> 1312, w |-> 128, h |-> 64]

Scene(player, plats, bsk, place, k) ==
    [player |-> player, x |-> StartX, facing |-> 1, platforms |-> plats,
     baskets |-> bsk, place |-> place, k |-> k]

\* the player one step to the right of where it was constructed, rising,
\* the ball just clear of its left side
SceneAway ==
    [Scene(PlayerRise1, << >>, << >>, BallLeft, BallSoccer)
        EXCEPT !.x = StartX + MOVE_SPEED]

\* the player back at that place after a step further right and a step
\* left, so that it last moved left; the ball against its left side
SceneBack ==
    [Scene(PlayerRise1, << >>, << >>, BallLeft, BallSoccer)
        EXCEPT !.x = StartX + MOVE_SPEED, !.facing = -1]

\* the states SpecBall starts from
Scenes ==
    { Scene(p, << >>, << >>, b, k) :
        p \in { PlayerRest, PlayerFall1, PlayerRise1 },
        b \in { BallBeside, BallAbove, BallLeft },
        k \in { BallSoccer } \cup Basketballs }
    \cup
    { Scene(PlayerSettle, << >>, << >>, BallBeside, k) :
        k \in { BallSoccer } \cup BasketballMid }
    \cup
    { Scene(PlayerRest, << >>, << >>, b, k) :
        b \in { BallCorner, BallRight },
        k \in { BallSoccer } \cup BasketballMid }
    \cup
    { Scene(p, << >>, bsk, b, k) :
        p \in { PlayerRest, PlayerFall1 },
        bsk \in { << BasketB1, BasketB2 >>, << BasketB2, BasketB1 >> },
        b \in { BallInBoth, BallOnEdge, BallFlying },
        k \in { BallSoccer } \cup BasketballMid }
    \cup
    { Scene(p, << FallB, SolidA >>, << >>, b, k) :
        p \in { PlayerRest, PlayerFall1, PlayerRise1 },
        b \in { BallOverFall, BallOverSolid, BallBeside },
        k \in { BallSoccer } \cup BasketballMid }
    \cup
    { Scene(PlayerRest, << >>, << >>, BallLanding, k) : k \in BasketballMid }
    \cup
    { Scene(PlayerRise1, << >>, << >>, BallRolling, BallSoccer) }
    \cup
    { SceneAway, SceneBack }

InitBall ==
    /\ pc = "events"
    /\ \E s \in Scenes :
         /\ playerX = s.x
         /\ playerY = s.player.y
         /\ velocityY = s.player.vy
         /\ isGrounded = s.player.grounded
         /\ wasInAir = s.player.air
         /\ bounceLevel = s.player.level
         /\ hadSmallRebound = s.player.latch
         /\ lastFacing = s.facing
         /\ platforms = s.platforms
         /\ baskets = s.baskets
         /\ EditorIdle
         /\ ball = [InitialBall EXCEPT !.kind = s.k.kind,
                                       !.energy = s.k.energy,
                                       !.shooting = s.k.shooting,
                                       !.x = s.place[1], !.y = s.place[2],
                                       !.vx = s.place[3], !.vy = s.place[4]]
    /\ spacePressed = FALSE
    /\ spacePressedThisFall = FALSE
    /\ faceOffset = 0
    /\ editorMode = FALSE
    /\ bouncedThisFrame = FALSE
    /\ landedOnPlatform = FALSE
    /\ landedOnGround = FALSE
    /\ airLanding = FALSE
    /\ landingLevel = 0
    /\ landingBoost = FALSE
    /\ landingLatch = FALSE
    /\ initialJump = FALSE
    /\ boostsThisFall = 0
    /\ landedOn = 0
    /\ tickStart = NoStart
    /\ quiet = FALSE
    /\ rect = NoRect
    /\ hit = FALSE
    /\ upd = NotUpdated(ball)
    /\ ticks = 0

NextBall ==
    \/ Running /\ KeyDownSpace
    \/ Running /\ KeyUpSpace
    \/ Running /\ KeyDownP
    \/ Running /\ KeyDownTab
    \/ Running /\ KeyDownE
    \/ Running /\ Move
    \/ HeldCheck
    \/ Integrate
    \/ PlatformCollision
    \/ GroundCollision
    \/ BallUpdate

SpecBall == InitBall /\ [][NextBall]_vars

---------------------------------------------------------------------------
\* resolveCircleRect on its own: one call on a circle and a rectangle drawn
\* from the sets below, the player left as constructed.

\* centers around and inside the rectangle, as offsets from its top-left
\* corner in milli units: outside by less and by more than the radius, on
\* the edges and the corner, inside near each side and in the middle
CircleOffsetsX ==
    { -24000, -18000, -17000, -12000, -9000, -500, 0, 500, 6000, 15000,
      20000, 96000, 172000, 186000, 191500, 192000, 192500, 201000, 204000,
      209000, 216000 }

CircleOffsetsY ==
    { -24000, -18000, -17500, -12000, -500, 0, 500, 6000, 15000, 16000,
      17000, 26000, 31500, 32000, 32500, 44000, 49000, 50000, 56000 }

CircleVelocities == { << 0, 0 >>, << 5000, 9000 >>, << -7000, -6500 >> }

CircleRects == { [x |-> 672, y |-> 1312, w |-> 192, h |-> 32] }

InitCircle ==
    /\ pc = "call"
    /\ rect \in CircleRects
    /\ \E ox \in CircleOffsetsX, oy \in CircleOffsetsY, v \in CircleVelocities :
         ball = [InitialBall EXCEPT !.x = Milli(rect.x) + ox,
                                    !.y = Milli(rect.y) + oy,
                                    !.vx = v[1], !.vy = v[2]]
    /\ hit = FALSE
    /\ baskets = << >>
    /\ upd = NoUpdate
    /\ ticks = 0
    /\ EditorIdle
    /\ playerX = StartX
    /\ playerY = PlayerGroundY
    /\ velocityY = 0
    /\ isGrounded = TRUE
    /\ wasInAir = FALSE
    /\ bounceLevel = 0
    /\ spacePressed = FALSE
    /\ spacePressedThisFall = FALSE
    /\ hadSmallRebound = FALSE
    /\ faceOffset = 0
    /\ lastFacing = 1
    /\ editorMode = FALSE
    /\ platforms = << >>
    /\ bouncedThisFrame = FALSE
    /\ landedOnPlatform = FALSE
    /\ landedOnGround = FALSE
    /\ airLanding = FALSE
    /\ landingLevel = 0
    /\ landingBoost = FALSE
    /\ landingLatch = FALSE
    /\ initialJump = FALSE
    /\ boostsThisFall = 0
    /\ landedOn = 0
    /\ tickStart = NoStart
    /\ quiet = FALSE

\* the call resolveCircleRect(ball, rect, BALL_RESTITUTION) (line 973)
ResolveCall ==
    /\ pc = "call"
    /\ LET res == resolveCircleRect(ball, rect, BALL_RESTITUTION)
       IN /\ ball' = res.c
          /\ hit' = res.hit
    /\ pc' = "return"
    /\ UNCHANGED << rect, baskets, editorVars, upd, ticks, playerX, playerY, velocityY,
                    isGrounded, wasInAir, bounceLevel, spacePressed,
                    spacePressedThisFall, hadSmallRebound, faceOffset,
                    lastFacing, editorMode, platforms, frameLocals,
                    initialJump, boostsThisFall, tickHistory >>

NextCircle == ResolveCall

SpecCircle == InitCircle /\ [][NextCircle]_vars

---------------------------------------------------------------------------
\* Properties.

\* the impulse of each level as the specification lists it, half units
\* (1: -10, 2: -14, 3: -18, 4: -22, 5: -26)
LevelImpulse == [L \in 1..5 |-> -2 * (10 + 4 * (L - 1))]

\* the end of a tick in which a landing of an airborne player was resolved
AirLandingDone == pc = "render" /\ airLanding

\* C1: a boosted landing of an airborne player at level L, on the ground or
\* on a platform, leaves level min(L+1, 5), the vertical velocity at exactly
\* that level's impulse and the player airborne (never at rest).
C1_BoostedLanding ==
    (AirLandingDone /\ landingBoost) =>
        /\ bounceLevel = Min(landingLevel + 1, 5)
        /\ velocityY = LevelImpulse[bounceLevel]
        /\ ~isGrounded
        /\ wasInAir
        /\ bouncedThisFrame

\* a boosted landing at the cap, on a platform: level 5 stays 5 and re-uses
\* the level-5 impulse
C1_Witness ==
    /\ AirLandingDone /\ landingBoost /\ landedOnPlatform
    /\ landingLevel = 5 /\ bounceLevel = 5 /\ velocityY = -52

\* C2: an unboosted landing of an airborne player at level L >= 1 leaves
\* level L-1; if L-1 >= 1 the velocity is exactly level L-1's impulse and the
\* player stays airborne.
C2_UnboostedDecrement ==
    (AirLandingDone /\ ~landingBoost /\ landingLevel >= 1) =>
        /\ bounceLevel = landingLevel - 1
        /\ bounceLevel >= 1 =>
              /\ velocityY = LevelImpulse[bounceLevel]
              /\ ~isGrounded
              /\ wasInAir

\* a missed landing on the ground from level 3 rebounds at level 2
C2_Witness ==
    /\ AirLandingDone /\ ~landingBoost /\ landedOnGround
    /\ landingLevel = 3 /\ bounceLevel = 2 /\ velocityY = -28

\* C4: the bounce level is an integer in 0..5 in every reachable state.
C4_LevelRange == bounceLevel \in 0..5

\* a boosted landing at level 5 has just been resolved: the cap was applied
C4_Witness ==
    /\ pc = "ground" /\ airLanding /\ landingBoost /\ landingLevel = 5
    /\ bounceLevel = 5

\* an unboosted landing of an airborne player that leaves the level at 0
SettleLanding == AirLandingDone /\ ~landingBoost /\ bounceLevel = 0

\* first stage of the settle: the small rebound, once, latch set
SmallRebound ==
    /\ velocityY = -6
    /\ ~isGrounded /\ wasInAir
    /\ hadSmallRebound

\* second stage: at rest, latch cleared
CameToRest ==
    /\ velocityY = 0
    /\ isGrounded /\ ~wasInAir
    /\ ~hadSmallRebound

WindowThreshold == [L \in 0..5 |-> 2 * (80 - 10 * L)]

\* the surfaces below the player that it can collide with: the platforms
\* that overlap it horizontally, lie entirely below its bottom edge and are
\* solid or fall-through with level > 0
SurfacesBelow ==
    { i \in 1..Len(platforms) :
        /\ platforms[i].isSolid \/ bounceLevel > 0
        /\ playerX < platforms[i].x + platforms[i].w
        /\ platforms[i].x < playerX + PLAYER_SIZE
        /\ 2 * platforms[i].y > playerY + 2 * PLAYER_SIZE }

\* the distances from the player's bottom edge to the ground plane and to
\* those surfaces, half units
DistancesBelow ==
    { 2 * (WORLD_HEIGHT - GROUND_HEIGHT) - (playerY + 2 * PLAYER_SIZE) }
    \cup { 2 * platforms[i].y - (playerY + 2 * PLAYER_SIZE) : i \in SurfacesBelow }

\* d: the distance to the nearest of them
NearestBelow == CHOOSE d \in DistancesBelow : \A e \in DistancesBelow : d <= e

\* a jump input reaches the timing check: a press event that is not the
\* initial jump, or the per-tick check with the key held
JumpInput ==
    \/ KeyDownSpace /\ ~(isGrounded /\ bounceLevel = 0)
    \/ HeldCheck /\ spacePressed

\* airborne, falling, no boost yet this fall
MayBoost == ~isGrounded /\ velocityY > 0 /\ ~spacePressedThisFall

\* C5: a jump input of an airborne, falling, not yet boosted player is
\* accepted exactly when the distance d to the nearest collidable surface
\* below is within the threshold of the level (and positive); on acceptance
\* the boost flag is set, 3.0 is added to the vertical velocity and the level
\* is unchanged; otherwise the input changes none of them.
C5_TimingWindow ==
    [][ (JumpInput /\ MayBoost) =>
          IF NearestBelow > 0 /\ NearestBelow <= WindowThreshold[bounceLevel]
          THEN /\ spacePressedThisFall'
               /\ velocityY' = velocityY + 6
               /\ bounceLevel' = bounceLevel
          ELSE /\ ~spacePressedThisFall'
               /\ velocityY' = velocityY
               /\ bounceLevel' = bounceLevel ]_vars

\* a held key has just been accepted at level 1 above a platform that is
\* nearer than the ground
C5_Witness ==
    /\ pc = "integrate" /\ spacePressedThisFall /\ boostsThisFall = 1
    /\ bounceLevel = 1
    /\ SurfacesBelow # {}
    /\ NearestBelow <= WindowThreshold[1]

C7_OneBoostPerFall ==
    /\ boostsThisFall <= 1
    /\ boostsThisFall = 1 => spacePressedThisFall

\* a boosted player still inside the timing window, key held, with the poll
\* loop open: only the flag keeps further inputs from boosting again
C7_Witness ==
    /\ pc = "events" /\ boostsThisFall = 1 /\ spacePressed
    /\ ~isGrounded /\ velocityY > 0
    /\ NearestBelow > 0 /\ NearestBelow <= WindowThreshold[bounceLevel]

\* C8: the boost flag is set only from a state where the player is airborne
\* and falling, and it is false at the end of every tick that resolved an
\* airborne player's landing.
C8_BoostFlag ==
    /\ [][ (~spacePressedThisFall /\ spacePressedThisFall') =>
             (~isGrounded /\ velocityY > 0) ]_vars
    /\ [] ( AirLandingDone => ~spacePressedThisFall )

\* the end of a tick whose landing, on a platform, found the flag set
C8_Witness ==
    AirLandingDone /\ landingBoost /\ landedOnPlatform /\ ~spacePressedThisFall

\* C9: at the end of every tick exactly one of grounded and airborne holds.
C9_GroundedXorAirborne == pc = "render" => (isGrounded <=> ~wasInAir)

\* the end of a tick that brought an airborne player to rest on a platform
C9_Witness ==
    /\ AirLandingDone /\ landedOnPlatform /\ isGrounded /\ ~wasInAir
    /\ landingLevel = 1

\* the squared distance from the circle's center to the rectangle, milli
\* units squared
CenterDist2(c, r) ==
    LET nearX == IF c.x < 1000 * r.x THEN 1000 * r.x
                 ELSE IF c.x > 1000 * (r.x + r.w) THEN 1000 * (r.x + r.w)
                 ELSE c.x
        nearY == IF c.y < 1000 * r.y THEN 1000 * r.y
                 ELSE IF c.y > 1000 * (r.y + r.h) THEN 1000 * (r.y + r.h)
                 ELSE c.y
    IN (c.x - nearX) * (c.x - nearX) + (c.y - nearY) * (c.y - nearY)

\* the tolerance of the post-condition: 0.01, milli units
Epsilon == Milli(1) \div 100

\* the call reported a collision
Collided == pc = "return" /\ hit

\* C10: whenever resolveCircleRect reports a collision, the moved center is
\* at least radius - epsilon away from the rectangle, the center on or
\* inside the rectangle included.
C10_NoResidualOverlap ==
    Collided =>
        CenterDist2(ball, rect) >= (ball.radius - Epsilon) * (ball.radius - Epsilon)

\* the post-condition does hold of every call whose center starts strictly
\* outside the rectangle (the branch that pushes out along the normal)
ResolveOutsideCenter ==
    [][ (pc = "call" /\ hit' /\ CenterDist2(ball, rect) > 0) =>
          CenterDist2(ball', rect') >=
              (ball.radius - Epsilon) * (ball.radius - Epsilon) ]_vars

---------------------------------------------------------------------------
\* Properties of the ball (SpecBall).

\* the end of an iteration: the poll loop of the next one is open
TickDone == pc = "events" /\ ticks > 0

\* ... of an iteration whose ball update ran (game mode)
GameTick == TickDone /\ upd.ran

\* C11: after any tick the ball's velocity is within the maxima, -14 <= vx
\* <= 14 and -26 <= vy <= 26, a tick in which a shot was launched included.
C11_VelocityClamped ==
    TickDone =>
        /\ -14000 <= upd.endVx /\ upd.endVx <= 14000
        /\ -26000 <= upd.endVy /\ upd.endVy <= 26000

\* the maxima do hold after every tick whose ball update ran
ClampedInGameMode ==
    GameTick =>
        /\ -14000 <= upd.endVx /\ upd.endVx <= 14000
        /\ -26000 <= upd.endVy /\ upd.endVy <= 26000

\* the baskets whose rectangle, bounds included, holds the point (x, y),
\* milli units
BasketsAt(x, y) ==
    { i \in 1..Len(baskets) :
        /\ 1000 * baskets[i].x <= x /\ x <= 1000 * (baskets[i].x + baskets[i].w)
        /\ 1000 * baskets[i].y <= y /\ y <= 1000 * (baskets[i].y + baskets[i].h) }

\* the baskets that hold the ball's center when the tick comes to scoring
Scored == BasketsAt(upd.scoreX, upd.scoreY)

\* C12: in a tick where the ball's center lies within one or more baskets
\* the ball is reset exactly once, to (playerX + 84, playerY + 24) of the
\* player's position at the end of the tick, with velocity (0, 0), and no
\* basket after the first that holds it is examined; in a tick where it lies
\* in none, nothing is reset.
C12_ScoredOnce ==
    GameTick =>
        IF Scored # {}
        THEN /\ upd.resets = 1
             /\ \A i \in Scored : upd.examined <= i
             /\ upd.endX = 1000 * (playerX + 64 + 20)
             /\ upd.endY = 500 * playerY + 1000 * (64 - 40)
             /\ upd.endVx = 0 /\ upd.endVy = 0
        ELSE /\ upd.resets = 0
             /\ upd.endX = upd.scoreX /\ upd.endY = upd.scoreY

\* a ball on the left edge of the first basket and inside the second: one
\* reset, the second basket not examined
C12_Witness ==
    /\ GameTick /\ Cardinality(Scored) = 2
    /\ upd.scoreX = 1000 * baskets[1].x
    /\ upd.resets = 1 /\ upd.examined = 1
    /\ upd.endX = 692000

\* the other kind
OtherKind(k) == IF k = "BALL_SOCCER" THEN "BALL_BASKETBALL" ELSE "BALL_SOCCER"

\* C13: a toggle in game mode flips the kind, leaves energy 0 and shooting
\* false whatever they were, and leaves position and velocity alone; the
\* second of two toggles restores the kind the first one found.
C13_Toggle ==
    [][ (KeyDownTab /\ ~editorMode) =>
          /\ ball'.kind = OtherKind(ball.kind)
          /\ ball'.energy = 0
          /\ ~ball'.shooting
          /\ ball'.x = ball.x /\ ball'.y = ball.y
          /\ ball'.vx = ball.vx /\ ball'.vy = ball.vy
          /\ upd.tabFrom.kind # "none" => ball'.kind = upd.tabFrom.kind ]_vars

\* a shooting basketball with energy 12 has just been toggled to a soccer
\* ball
C13_Witness ==
    /\ upd.tabFrom.kind = "BALL_BASKETBALL" /\ upd.tabFrom.energy = 12
    /\ upd.tabFrom.shooting
    /\ ball.kind = "BALL_SOCCER" /\ ball.energy = 0 /\ ~ball.shooting

\* C14: the energy is an integer in 0..12 in every reachable state.
C14_EnergyRange == ball.energy \in 0..12

\* a dribble bounce of a basketball that already had energy 12
C14_Witness ==
    /\ GameTick /\ upd.bounced /\ (upd.hitPlayer \/ upd.near) /\ ~upd.soccer
    /\ upd.preEnergy = 12 /\ ball.energy = 12 /\ upd.resets = 0

\* the facing as the specification words it: the current movement direction
\* or, when idle, the last non-neutral one
MovementFacing ==
    IF faceOffset < 0 THEN -1 ELSE IF faceOffset > 0 THEN 1 ELSE lastFacing

\* 8 + clamp((e - 6) / 5, 0, 1) * 10, milli units
ShotSpeed(e) ==
    IF e <= 6 THEN 8000 ELSE IF e >= 11 THEN 18000 ELSE 8000 + 2000 * (e - 6)

\* C15: a shot launched with energy e sets shooting, the horizontal velocity
\* to facing * (8 + clamp((e - 6) / 5, 0, 1) * 10) and the vertical velocity
\* to -(14 + 0.6 e).
C15_ShotLaunch ==
    [][ (KeyDownE /\ ball' # ball) =>
          /\ ball'.shooting
          /\ ball'.vx = MovementFacing * ShotSpeed(ball.energy)
          /\ ball'.vy = -(14000 + 600 * ball.energy)
          /\ ball'.x = ball.x /\ ball'.y = ball.y ]_vars

\* the shot of the specification's example: energy 6, speed 8 in the facing
\* direction, vertical velocity -17.6
C15_Witness ==
    /\ upd.shot /\ ball.shooting /\ ball.energy = 6
    /\ ball.vx = 8000 * MovementFacing /\ ball.vy = -17600

\* the ball's center is within d of the rectangle r (d at most 46 units)
WithinOf(b, r, d) ==
    LET nearX == IF b.x < 1000 * r.x THEN 1000 * r.x
                 ELSE IF b.x > 1000 * (r.x + r.w) THEN 1000 * (r.x + r.w)
                 ELSE b.x
        nearY == IF b.y < 1000 * r.y THEN 1000 * r.y
                 ELSE IF b.y > 1000 * (r.y + r.h) THEN 1000 * (r.y + r.h)
                 ELSE b.y
    IN /\ b.x - nearX <= d /\ nearX - b.x <= d
       /\ b.y - nearY <= d /\ nearY - b.y <= d
       /\ (b.x - nearX) * (b.x - nearX) + (b.y - nearY) * (b.y - nearY)
            <= d * d

\* the player's rectangle: its position with the fractions dropped
PlayerBox ==
    [x |-> playerX,
     y |-> IF playerY >= 0 THEN playerY \div 2 ELSE -((-playerY) \div 2),
     w |-> 64, h |-> 64]

\* the conditions C16 names
ShotGate ==
    /\ ~editorMode
    /\ ball.kind = "BALL_BASKETBALL"
    /\ WithinOf(ball, PlayerBox, ball.radius)
    /\ ball.y < 1000 * (WORLD_HEIGHT - GROUND_HEIGHT) - ball.radius
    /\ ~isGrounded

\* C16: a shoot press changes no ball or player state unless it is game
\* mode, the ball is a basketball, touches the player's rectangle and is
\* above its ground rest height, and the player is not grounded.
C16_ShootGating ==
    [][ (KeyDownE /\ ~ShotGate) =>
          /\ ball' = ball
          /\ UNCHANGED playerVars ]_vars

\* a press that only the grounded player has kept from shooting: a
\* basketball in the air touching the player at rest, in game mode
C16_Witness ==
    /\ pc = "events" /\ upd.refused /\ ~upd.shot /\ ~editorMode
    /\ upd.tabFrom.kind = "none"
    /\ ball.kind = "BALL_BASKETBALL"
    /\ WithinOf(ball, PlayerBox, ball.radius)
    /\ ball.y < 1000 * (WORLD_HEIGHT - GROUND_HEIGHT) - ball.radius
    /\ isGrounded /\ velocityY = 0
    /\ ~ball.shooting

\* C17: the energy changes only by +1 (capped at 12) in the ball update of
\* a tick in which the player rebounded and touched or nearly touched the
\* ball, or by the reset to 0 of a kind toggle; every other step, a shot
\* launch, a scoring reset, a contact with ground, wall or platform and the
\* player's coming to rest included, leaves it as it was.
C17_EnergyPersistence ==
    [][ \/ ball'.energy = ball.energy
        \/ /\ KeyDownTab
           /\ ball'.energy = 0
        \/ /\ pc = "render" /\ bouncedThisFrame
           /\ upd'.hitPlayer \/ upd'.near
           /\ ball'.energy = Min(12, ball.energy + 1) ]_vars

\* a shot has been launched with energy 11, and the energy is still 11
C17_Witness ==
    /\ pc = "events" /\ upd.shot /\ ball.shooting
    /\ ball.vx = 18000 * MovementFacing /\ ball.energy = 11

\* C18: in a soccer-style contact with offset o and facing f the horizontal
\* velocity is set to f * 7 * |o| + 0.4 * dx if o * f exceeds 0.15, dx being
\* the player's horizontal displacement in that tick, and to 0 otherwise.
\* (The displacement of a tick is faceOffset: -5, 0 or +5, as long as the
\* world's edge does not stop the player.)
C18_DribblePush ==
    (GameTick /\ upd.hitPlayer /\ upd.soccer) =>
        upd.afterVx =
            IF upd.offset * upd.facing > 150
            THEN upd.facing * 7 * Abs(upd.offset) + 400 * faceOffset
            ELSE 0

\* the push does follow the formula with dx taken from where the player was
\* constructed
DribbleFromStart ==
    (GameTick /\ upd.hitPlayer /\ upd.soccer) =>
        upd.afterVx =
            IF upd.offset * upd.facing > 150
            THEN upd.facing * 7 * Abs(upd.offset) + 400 * (playerX - StartX)
            ELSE 0

\* a direct contact handled soccer-style in the tick just ended
SoccerContact == GameTick /\ upd.hitPlayer /\ upd.soccer

\* C19 as stated: the pop is -max(6.5, |vy|) of the vertical velocity with
\* which the ball reached the player, and never above -6.5.
C19_PopFromIncoming ==
    SoccerContact =>
        /\ upd.afterVy = -Max(6500, Abs(upd.incomingVy))
        /\ upd.afterVy <= -6500

\* C19 amended: the pop is -max(6.5, |vy|) of the vertical velocity that
\* the reflection off the player's rectangle (restitution 0.82) has left,
\* and never above -6.5.
C19_PopFromReflected ==
    SoccerContact =>
        /\ upd.afterVy = -Max(6500, Abs(upd.reflectedVy))
        /\ upd.afterVy <= -6500

\* a ball that fell on the player's top at 10.5 leaves at 8.61, not 10.5
C19_Witness ==
    /\ SoccerContact
    /\ upd.incomingVy = 10500 /\ upd.reflectedVy = -8610
    /\ upd.afterVy = -8610

\* C20 as stated: in every game-mode tick the ball is resolved against
\* every platform, solid or fall-through, whatever the bounce level.
C20_EveryPlatform ==
    GameTick => upd.resolved = 1..Len(platforms)

\* C20 amended: in every game-mode tick the ball is resolved against every
\* solid platform, and against the fall-through ones exactly when the
\* player's bounce level, as the landing of that tick left it, is above 0.
C20_FallThroughByLevel ==
    GameTick =>
        upd.resolved =
            { i \in 1..Len(platforms) : platforms[i].isSolid \/ upd.level > 0 }

\* at level 0 the ball has sunk into the fall-through platform, which was
\* not resolved
C20_Witness ==
    /\ GameTick /\ upd.level = 0
    /\ Len(platforms) = 2 /\ ~platforms[1].isSolid
    /\ upd.resolved = {2}
    /\ WithinOf(ball, platforms[1], ball.radius - 1000)

---------------------------------------------------------------------------
\* Properties of the player's collisions and of whole ticks (Spec).

\* the end of a tick
TickEnd == pc = "render"

\* the player's bottom edge, half units
Bottom(y) == y + 2 * PLAYER_SIZE

\* platform i and the player overlap horizontally
Overlaps(i) ==
    /\ playerX < platforms[i].x + platforms[i].w
    /\ platforms[i].x < playerX + PLAYER_SIZE

\* the distances from the player's bottom edge to the ground plane and to
\* the solid platforms below it, half units
SolidDistancesBelow ==
    { 2 * (WORLD_HEIGHT - GROUND_HEIGHT) - Bottom(playerY) }
    \cup { 2 * platforms[i].y - Bottom(playerY) :
             i \in { j \in 1..Len(platforms) :
                       /\ platforms[j].isSolid
                       /\ Overlaps(j)
                       /\ 2 * platforms[j].y > Bottom(playerY) } }

SolidNearestBelow ==
    CHOOSE d \in SolidDistancesBelow : \A e \in SolidDistancesBelow : d <= e

\* some solid platform passes the landing test of a tick in game mode
SolidPasses ==
    /\ pc = "platform" /\ ~editorMode /\ velocityY >= 0
    /\ \E i \in 1..Len(platforms) :
          /\ platforms[i].isSolid
          /\ Overlaps(i)
          /\ Bottom(playerY) <= 2 * platforms[i].y
          /\ Bottom(playerY) + velocityY >= 2 * platforms[i].y

\* C21: a landing on a fall-through platform occurs only in a tick whose
\* landing test found the bounce level above 0; at level 0 the timing window
\* measures to the nearest of the ground and the solid platforms only; and
\* a solid platform that passes the landing test lands the player at every
\* level.
C21_FallThroughNeedsLevel ==
    /\ [] ( (TickEnd /\ landedOnPlatform /\ ~platforms[landedOn].isSolid)
               => landingLevel > 0 )
    /\ [][ (JumpInput /\ MayBoost /\ bounceLevel = 0) =>
             ( spacePressedThisFall' <=>
                 (SolidNearestBelow > 0 /\ SolidNearestBelow <= 160) ) ]_vars
    /\ [][ SolidPasses =>
             /\ landedOnPlatform'
             /\ landedOn' \in 1..Len(platforms)
             /\ playerY' = 2 * (platforms[landedOn'].y - PLAYER_SIZE) ]_vars

\* the end of a tick in which the player, at level 0, stood on a
\* fall-through platform that passes the rest of the landing test, and was
\* not landed on it
C21_Witness ==
    /\ TickEnd /\ ~editorMode /\ ~landedOnPlatform /\ bounceLevel = 0
    /\ velocityY >= 0
    /\ \E i \in 1..Len(platforms) :
          /\ ~platforms[i].isSolid
          /\ Overlaps(i)
          /\ Bottom(playerY) <= 2 * platforms[i].y
          /\ Bottom(playerY) + velocityY >= 2 * platforms[i].y

\* the end of a tick that ran in editor mode
EditorTick == TickEnd /\ tickStart.taken /\ editorMode

\* C22: across a tick executed in editor mode the player's vertical
\* position and velocity, the grounded and airborne flags, the bounce level
\* and the boost flag are unchanged (and so is the ball, which Spec leaves
\* alone in every tick).
C22_EditorFreezes ==
    EditorTick =>
        /\ playerY = tickStart.y
        /\ velocityY = tickStart.vy
        /\ isGrounded = tickStart.grounded
        /\ wasInAir = tickStart.air
        /\ bounceLevel = tickStart.level
        /\ spacePressedThisFall = tickStart.boost
        /\ ball = InitialBall

\* what editor mode does switch off for the player is the platform loop
EditorSkipsPlatforms == EditorTick => ~landedOnPlatform

\* platform i can be collided with at bounce level l
Collidable(i, l) == platforms[i].isSolid \/ l > 0

\* the platform loop is about to run in game mode: playerY is the position
\* after this tick's displacement, tickStart.y the one before it
LandingTest == pc = "platform" /\ tickStart.taken /\ ~editorMode

\* the step of this tick took the bottom edge from at or above the top of
\* platform i to at or below it
SweptOnto(i) ==
    /\ Collidable(i, bounceLevel)
    /\ Overlaps(i)
    /\ Bottom(tickStart.y) <= 2 * platforms[i].y
    /\ Bottom(playerY) >= 2 * platforms[i].y

\* the step that the same velocity would take next leads the bottom edge
\* from at or above the top of platform i to at or below it
AheadOnto(i) ==
    /\ Collidable(i, bounceLevel)
    /\ Overlaps(i)
    /\ Bottom(playerY) <= 2 * platforms[i].y
    /\ Bottom(playerY) + velocityY >= 2 * platforms[i].y

\* C23: a platform landing is detected in a tick exactly when the vertical
\* velocity is >= 0 and, for a collidable platform that the player overlaps
\* horizontally, the bottom edge was at or above the platform top before the
\* tick's displacement and is at or below it after; on detection the bottom
\* edge is on the platform top at the end of the platform loop.
C23_SweptLanding ==
    [][ LandingTest =>
          /\ landedOnPlatform' <=>
                (velocityY >= 0 /\ \E i \in 1..Len(platforms) : SweptOnto(i))
          /\ landedOnPlatform' =>
                /\ SweptOnto(landedOn')
                /\ Bottom(playerY') = 2 * platforms[landedOn'].y ]_vars

\* what the loop does test: the step ahead of the position already reached
LandingLooksAhead ==
    [][ LandingTest =>
          /\ landedOnPlatform' <=>
                (velocityY >= 0 /\ \E i \in 1..Len(platforms) : AheadOnto(i))
          /\ landedOnPlatform' =>
                /\ AheadOnto(landedOn')
                /\ Bottom(playerY') = 2 * platforms[landedOn'].y ]_vars

\* the tick began in game mode with the player falling at or above the top
\* of platform i, which it can collide with and overlaps, and the player
\* was not moved horizontally
FallingAbove(i) ==
    /\ tickStart.taken /\ ~editorMode /\ faceOffset = 0
    /\ ~tickStart.grounded /\ tickStart.vy > 0
    /\ Collidable(i, tickStart.level)
    /\ Overlaps(i)
    /\ Bottom(tickStart.y) <= 2 * platforms[i].y

\* C24: a falling player that a tick in game mode finds at or above the top
\* of a collidable platform it overlaps, and that is not moved horizontally,
\* is still at or above that top at the end of the tick, a boost in that
\* tick included.
C24_NoTunnelling ==
    TickEnd =>
        \A i \in 1..Len(platforms) :
            FallingAbove(i) => Bottom(playerY) <= 2 * platforms[i].y

\* C25: when several platforms pass the landing test in one tick the player
\* lands on the one that comes earliest in the list, a nearer later one
\* notwithstanding, and the ground plane is tested only in a tick without a
\* platform landing.
C25_FirstMatch ==
    /\ [][ (LandingTest /\ velocityY >= 0) =>
             \A i \in 1..Len(platforms) :
                 AheadOnto(i) =>
                     /\ landedOnPlatform'
                     /\ landedOn' \in 1..i
                     /\ AheadOnto(landedOn')
                     /\ Bottom(playerY') = 2 * platforms[landedOn'].y ]_vars
    /\ [] ( (TickEnd /\ landedOnPlatform) => ~landedOnGround )

\* the velocity of the tick's displacement: the velocity the tick found,
\* the downward force of a boost accepted in the tick, and gravity
StepVelocity ==
    tickStart.vy
    + (IF landingBoost /\ ~tickStart.boost THEN DOWNWARD_FORCE ELSE 0)
    + (IF tickStart.grounded THEN 0 ELSE GRAVITY)

\* the end of a tick that landed the player on the first platform of the
\* list although the second, whose top is higher and so nearer, passed the
\* test too
C25_Witness ==
    /\ TickEnd /\ landedOnPlatform /\ landedOn = 1 /\ airLanding
    /\ Len(platforms) = 2
    /\ platforms[2].y < platforms[1].y
    /\ Collidable(2, landingLevel) /\ Overlaps(2)
    /\ Bottom(tickStart.y + StepVelocity) <= 2 * platforms[2].y
    /\ Bottom(playerY) = 2 * platforms[1].y

\* C26: a player grounded at the end of a tick that neither jumps nor moves
\* sideways in the next tick is, at the end of that tick, still grounded at
\* the same height with level 0 and velocity 0, whatever it rests on and in
\* editor mode as in game mode.  (A press of SPACE by a grounded player
\* takes it off the ground before the tick's start is recorded.)
C26_RestIsStable ==
    (TickEnd /\ ticks > 0 /\ tickStart.taken /\ tickStart.grounded
        /\ faceOffset = 0)
    => /\ isGrounded
       /\ playerY = tickStart.y
       /\ bounceLevel = 0
       /\ velocityY = 0

\* what does hold: rest on the ground plane is stable
RestOnGroundIsStable ==
    (TickEnd /\ ticks > 0 /\ tickStart.taken /\ tickStart.grounded
        /\ tickStart.y = PlayerGroundY)
    => /\ isGrounded
       /\ playerY = tickStart.y
       /\ bounceLevel = 0
       /\ velocityY = 0

\* what does hold: in game mode rest on a solid platform is stable
RestOnSolidIsStable ==
    (TickEnd /\ ticks > 0 /\ tickStart.taken /\ tickStart.grounded
        /\ ~editorMode
        /\ \E i \in 1..Len(platforms) :
               /\ platforms[i].isSolid /\ Overlaps(i)
               /\ Bottom(tickStart.y) = 2 * platforms[i].y)
    => /\ isGrounded
       /\ playerY = tickStart.y
       /\ bounceLevel = 0
       /\ velocityY = 0

C28_LatchOnlyAtLevel0 ==
    /\ bounceLevel >= 1 => ~hadSmallRebound
    /\ (TickEnd /\ landedOnGround /\ airLanding /\ landingLevel = 1
           /\ ~landingBoost)
       => SmallRebound

\* what does hold: without platforms the latch is set only at level 0
LatchOnlyAtLevel0OnFlatGround ==
    (platforms = << >> /\ bounceLevel >= 1) => ~hadSmallRebound

----------------------------------------------------------------------------
\* The game left alone (SpecDecay).  The environment may, in game mode and
\* with SPACE up, let go of the keys for good: from then on no key event
\* arrives and the keyboard state (line 624) shows no key down.  The main
\* loop (line 360) runs an iteration after the other, hence the weak
\* fairness of its steps.

GoQuiet ==
    /\ pc = "events"
    /\ ~quiet /\ ~spacePressed /\ ~editorMode
    /\ quiet' = TRUE
    /\ UNCHANGED << playerVars, frameLocals, initialJump, boostsThisFall,
                    landedOn, tickStart >>
    /\ UNCHANGED << pc, circleVars >>

\* key events arrive only while the keys have not been let go
KeyDownSpaceDecay == ~quiet /\ KeyDownSpace
KeyUpSpaceDecay == ~quiet /\ KeyUpSpace
KeyDownPDecay == ~quiet /\ KeyDownP

\* the keyboard step of an iteration; no arrow key is down once quiet
MoveDecay == Move /\ (quiet => faceOffset' = 0)

NextDecay ==
    \/ GoQuiet
    \/ KeyDownSpaceDecay
    \/ KeyUpSpaceDecay
    \/ KeyDownPDecay
    \/ MoveDecay
    \/ HeldCheck
    \/ Integrate
    \/ PlatformCollision
    \/ GroundCollision
    \/ Render

LoopFairness ==
    /\ WF_vars(MoveDecay)
    /\ WF_vars(HeldCheck)
    /\ WF_vars(Integrate)
    /\ WF_vars(PlatformCollision)
    /\ WF_vars(GroundCollision)
    /\ WF_vars(Render)

SpecDecay == Init /\ [][NextDecay]_vars /\ LoopFairness

AtRest == isGrounded /\ bounceLevel = 0 /\ velocityY = 0

\* quiet, once true, stays true: "from the moment the keys are let go the
\* player is eventually at rest for good" is <>[](quiet => AtRest)

----------------------------------------------------------------------------
\* SPACE held on flat ground (SpecHeld).  The level has no platforms, the
\* player starts at rest on the ground, and SPACE, once down, is never
\* released: no SDL_KEYUP arrives, while the key's repeats arrive as further
\* SDL_KEYDOWN events.

InitHeld ==
    /\ Init
    /\ platforms = << >>
    /\ playerY = PlayerGroundY

NextHeld ==
    \/ KeyDownSpace
    \/ KeyDownP
    \/ Move
    \/ HeldCheck
    \/ Integrate
    \/ PlatformCollision
    \/ GroundCollision
    \/ Render

HeldFairness ==
    /\ WF_vars(Move)
    /\ WF_vars(HeldCheck)
    /\ WF_vars(Integrate)
    /\ WF_vars(PlatformCollision)
    /\ WF_vars(GroundCollision)
    /\ WF_vars(Render)

SpecHeld == InitHeld /\ [][NextHeld]_vars /\ HeldFairness

\* C30: on flat ground, SPACE pressed at rest and held from then on: every
\* fall gets exactly one boost before it lands, the level never goes down,
\* and it ends at 5 for good.
C30_HeldChain ==
    /\ [][ (pc = "ground" /\ spacePressed /\ wasInAir /\ landedOnGround')
            => (spacePressedThisFall /\ boostsThisFall = 1) ]_vars
    /\ [][ spacePressed => bounceLevel' >= bounceLevel ]_vars
    /\ <>[] ( spacePressed => bounceLevel = 5 )

\* the end of a tick in which the player, SPACE held, landed at level 5
\* with the one boost of its fall and bounced again at level 5
C30_Witness ==
    /\ TickEnd /\ spacePressed /\ platforms = << >>
    /\ airLanding /\ landedOnGround
    /\ landingLevel = 5 /\ landingBoost
    /\ bounceLevel = 5 /\ velocityY = BOUNCE_LEVEL5 /\ ~isGrounded

---------------------------------------------------------------------------
\* Properties of the player's part of the ball update (SpecBall).

\* the iteration just ended, no kind toggle since its ball update
FreshTick == GameTick /\ upd.tabFrom = NoTab

\* a direct contact handled as a dribble: a basketball that is not shooting
DribbleContact == FreshTick /\ upd.hitPlayer /\ ~upd.soccer

\* C31: a direct contact of the player with a basketball that is not
\* shooting sets the horizontal velocity to 0, raises the energy by 1
\* (capped at 12) exactly if the player's landing of that tick gave a
\* rebound, and sets the vertical velocity to -(6 + 1.15 * energy) of the
\* new energy; that speed grows strictly with the energy.
C31_Dribble ==
    /\ DribbleContact =>
          /\ upd.afterVx = 0
          /\ ball.energy = IF upd.bounced THEN Min(12, upd.preEnergy + 1)
                           ELSE upd.preEnergy
          /\ upd.afterVy = -(6000 + 1150 * ball.energy)
    /\ pc = "render" =>
          (bouncedThisFrame <=> (airLanding /\ ~isGrounded /\ velocityY < 0))
    /\ \A e \in 0..11 : BasketballUp(e + 1) < BasketballUp(e)

\* a dribble in the tick of a rebound: energy 6 became 7, the ball leaves
\* at -(6 + 1.15 * 7)
C31_Witness ==
    /\ DribbleContact /\ upd.bounced /\ upd.landing
    /\ upd.preEnergy = 6 /\ ball.energy = 7
    /\ upd.afterVx = 0 /\ upd.afterVy = -14050

\* ... and one in a tick without a rebound: the energy is kept
DribbleWithoutRebound ==
    /\ DribbleContact /\ ~upd.bounced
    /\ upd.preEnergy = 6 /\ ball.energy = 6 /\ upd.afterVy = -12900

\* C32: a basketball whose shooting flag is set is handled soccer-style by
\* the direct contact and by the proximity trigger alike, and its energy
\* does not change from the launch until the flag is cleared.
C32_ShootingIsSoccerStyle ==
    /\ [][ (ball.shooting /\ ball'.shooting) =>
              ball'.energy = ball.energy ]_vars
    /\ [][ (pc = "render" /\ ball.shooting /\ ball'.shooting
              /\ (upd'.hitPlayer \/ upd'.near)) => upd'.soccer ]_vars

\* what does hold: the direct contact with a shooting basketball is
\* soccer-style and keeps the energy
ShootingContactIsSoccerStyle ==
    [][ (pc = "render" /\ ball.shooting /\ ball'.shooting /\ upd'.hitPlayer)
          => (upd'.soccer /\ ball'.energy = ball.energy) ]_vars

\* how far the point x lies outside the interval lo..hi
Outside(x, lo, hi) == IF x < lo THEN lo - x ELSE IF x > hi THEN x - hi ELSE 0

\* the ball's center as the player's part left it, relative to the
\* player's rectangle of that tick: the offsets on both axes, milli units
GapDX == Outside(upd.scoreX, Milli(playerX), Milli(playerX + PLAYER_SIZE))
GapDY ==
    Outside(upd.scoreY, Milli(IntOfHalf(playerY)),
            Milli(IntOfHalf(playerY) + PLAYER_SIZE))

\* the gap g between the ball's surface and the rectangle has 0 < g <= 10
GapWithinTen ==
    /\ GapDX <= ball.radius + 10000
    /\ GapDY <= ball.radius + 10000
    /\ GapDX * GapDX + GapDY * GapDY > ball.radius * ball.radius
    /\ GapDX * GapDX + GapDY * GapDY
          <= (ball.radius + 10000) * (ball.radius + 10000)

\* the ball as the platform loop hands it to the player's part
AtPlayer ==
    BallOnPlatforms(BallOnGround(BallInWorld(BallIntegrated(ball))),
                    platforms, 1, bounceLevel)

\* C33: the proximity response, upward velocity and horizontal velocity 0,
\* is given only in a tick without direct contact in which the gap g
\* between the ball's surface and the player's rectangle has 0 < g <= 10
\* and the player rebounded; in every other tick without contact the
\* player's part leaves the ball's velocity and energy as they were.
C33_NearBounceTrigger ==
    /\ [] ( (GameTick /\ upd.near) =>
               /\ ~upd.hitPlayer /\ upd.bounced /\ GapWithinTen
               /\ upd.afterVx = 0 /\ upd.afterVy < 0 )
    /\ [][ (pc = "render" /\ upd'.ran /\ ~upd'.hitPlayer /\ ~upd'.near) =>
              /\ upd'.afterVx = AtPlayer.vx
              /\ upd'.afterVy = AtPlayer.vy
              /\ ball'.energy = ball.energy ]_vars

\* the proximity response given to a soccer ball at rest beside the player,
\* who rebounded without touching it
C33_Witness ==
    /\ GameTick /\ upd.near /\ ~upd.hitPlayer /\ upd.bounced /\ upd.soccer
    /\ GapWithinTen
    /\ upd.afterVx = 0 /\ upd.afterVy = -6500 /\ upd.resets = 0

\* a tick without contact in which the ball is within the gap but the
\* player did not rebound: no response
NearWithoutRebound ==
    /\ GameTick /\ ~upd.near /\ ~upd.hitPlayer /\ ~upd.bounced
    /\ GapWithinTen /\ upd.resets = 0

\* the ball update about to run finds the ball below the ground's rest
\* height (line 956)
TouchesGround ==
    LET b == BallInWorld(BallIntegrated(ball))
    IN b.y > Milli(WORLD_HEIGHT - GROUND_HEIGHT) - b.radius

\* C34: the shooting flag is raised only by a shot that is launched; it is
\* false at the end of a tick in which a basketball touched the ground
\* plane; other than that only a kind toggle clears it: wall, platform and
\* player contact and a scoring reset leave it as it was.
C34_ShootingFlag ==
    /\ [][ (~ball.shooting /\ ball'.shooting) =>
              /\ KeyDownE /\ ~editorMode
              /\ ShotAllowed(ball, playerX, playerY, isGrounded) ]_vars
    /\ [][ (pc = "render" /\ upd'.ran /\ ball.kind = "BALL_BASKETBALL"
              /\ TouchesGround) => ~ball'.shooting ]_vars
    /\ [][ (ball.shooting /\ ~ball'.shooting) =>
              \/ KeyDownTab /\ ~editorMode
              \/ pc = "render" /\ upd'.ran /\ TouchesGround ]_vars

\* a shooting basketball has come down on the ground in the tick just
\* ended: the flag is cleared
C34_Witness ==
    /\ FreshTick /\ upd.preShooting /\ ~ball.shooting
    /\ ball.kind = "BALL_BASKETBALL"
    /\ upd.endY = Milli(WORLD_HEIGHT - GROUND_HEIGHT) - ball.radius

\* a scoring reset, and a contact with the player, that left the flag set
ShootingAfterReset ==
    FreshTick /\ upd.preShooting /\ ball.shooting /\ upd.resets = 1
ShootingAfterContact ==
    FreshTick /\ upd.preShooting /\ ball.shooting /\ upd.hitPlayer

---------------------------------------------------------------------------
\* A shot and what follows it (SpecArc).  The iteration starts right after
\* a shot was launched in its poll loop; from then on no key event arrives
\* and no key is down, and the loop runs on.

\* the player falling at level 1, one tick above the top of SolidA
PlayerOverSolid ==
    [y |-> H(SolidA.y - PLAYER_SIZE) - 19, vy |-> 18, grounded |-> FALSE,
     air |-> TRUE, level |-> 1, latch |-> FALSE]

\* the ball at the player's right side, touching it: over the ground and
\* over the platform
BallAtHandLow == << 685000, 1320000, 0, 0 >>
BallAtHandHigh == << 690000, 1250000, 0, 0 >>

\* a basket of the editor's size in the way of the shot from the platform
BasketUp == [x |-> 704, y |-> 1152, w |-> 128, h |-> 64]

\* the basketball before its shot
ArcBalls ==
    { [kind |-> "BALL_BASKETBALL", energy |-> e, shooting |-> FALSE] :
        e \in {0, 6, 12} }

\* the states in which the shoot key is pressed
ArcScenes ==
    { Scene(PlayerFall1, << >>, << >>, BallAtHandLow, k) : k \in ArcBalls }
    \cup
    { [Scene(PlayerOverSolid, << SolidA >>, bsk, BallAtHandHigh, k)
          EXCEPT !.x = StartX + MOVE_SPEED] :
        bsk \in { << >>, << BasketUp >> }, k \in ArcBalls }

InitArc ==
    /\ pc = "events"
    /\ \E s \in ArcScenes :
         LET b == [InitialBall EXCEPT !.kind = s.k.kind,
                                      !.energy = s.k.energy,
                                      !.shooting = s.k.shooting,
                                      !.x = s.place[1], !.y = s.place[2],
                                      !.vx = s.place[3], !.vy = s.place[4]]
         IN /\ playerX = s.x
            /\ playerY = s.player.y
            /\ velocityY = s.player.vy
            /\ isGrounded = s.player.grounded
            /\ wasInAir = s.player.air
            /\ bounceLevel = s.player.level
            /\ hadSmallRebound = s.player.latch
            /\ platforms = s.platforms
            /\ baskets = s.baskets
            /\ EditorIdle
            /\ ShotAllowed(b, s.x, s.player.y, s.player.grounded)
            /\ ball = ShotLaunch(b, ShotFacing(0, 1))
            /\ upd = [NotUpdated(b) EXCEPT !.shot = TRUE]
    /\ spacePressed = FALSE
    /\ spacePressedThisFall = FALSE
    /\ faceOffset = 0
    /\ lastFacing = 1
    /\ editorMode = FALSE
    /\ bouncedThisFrame = FALSE
    /\ landedOnPlatform = FALSE
    /\ landedOnGround = FALSE
    /\ airLanding = FALSE
    /\ landingLevel = 0
    /\ landingBoost = FALSE
    /\ landingLatch = FALSE
    /\ initialJump = FALSE
    /\ boostsThisFall = 0
    /\ landedOn = 0
    /\ tickStart = NoStart
    /\ quiet = TRUE
    /\ rect = NoRect
    /\ hit = FALSE
    /\ ticks = 0

NextArc ==
    \/ MoveDecay
    \/ HeldCheck
    \/ Integrate
    \/ PlatformCollision
    \/ GroundCollision
    \/ BallUpdate

\* the loop's steps are taken one after the other; the ball update is
\* enabled exactly when pc = "render" and leaves it, so its weak fairness is
\* that pc is not "render" for ever
ArcFairness ==
    /\ WF_vars(MoveDecay)
    /\ WF_vars(HeldCheck)
    /\ WF_vars(Integrate)
    /\ WF_vars(PlatformCollision)
    /\ WF_vars(GroundCollision)
    /\ []<>(pc # "render")

SpecArc == InitArc /\ [][NextArc]_vars /\ ArcFairness

\* C35: once a shot is launched and no shoot or toggle event follows, the
\* shooting flag is eventually false, also when the ball ends on a platform
\* above the ground or is reset by a score.
C35_ShotEnds == <>(~ball.shooting)

\* what does hold: over flat ground the shot ends
ShotEndsOnFlatGround == (platforms = << >>) => <>(~ball.shooting)

---------------------------------------------------------------------------
\* Properties of the facing and of the shot's velocity (SpecBall).

\* C36: in a tick with neutral horizontal input the facing that directs
\* the dribble push and the shot is the player's last non-neutral movement
\* direction, wherever the player stands relative to where it started.
C36_IdleFacing ==
    /\ [] ( (GameTick /\ faceOffset = 0 /\ upd.hitPlayer /\ upd.soccer) =>
               upd.facing = lastFacing )
    /\ [][ (KeyDownE /\ ~editorMode /\ faceOffset = 0
              /\ ShotAllowed(ball, playerX, playerY, isGrounded)) =>
              ball'.vx * lastFacing > 0 ]_vars

\* what does hold: the shot of an idle player goes where it last moved
IdleShotFacing ==
    [][ (KeyDownE /\ ~editorMode /\ faceOffset = 0
          /\ ShotAllowed(ball, playerX, playerY, isGrounded)) =>
          ball'.vx * lastFacing > 0 ]_vars

\* ... and the contact of an idle player faces the side of its start
\* column on which the player stands, and where it last moved only in that
\* column
IdleContactFacing ==
    (GameTick /\ faceOffset = 0 /\ upd.hitPlayer /\ upd.soccer) =>
        upd.facing = IF playerX < StartX THEN -1
                     ELSE IF playerX > StartX THEN 1
                     ELSE lastFacing

\* the horizontal velocity with which a shot launched to the right at
\* energy e leaves in the first ball update after it
ShotTravel(e) ==
    BallIntegrated(ShotLaunch([InitialBall EXCEPT !.kind = "BALL_BASKETBALL",
                                                  !.energy = e], 1)).vx

\* C37: at every energy 0..12 the velocity a shot launch assigns is within
\* the maxima, |vx| <= 14 and |vy| <= 26, so the clamp of the update leaves
\* a fresh shot alone, and the horizontal speed with which the shot
\* travels grows strictly with the energy from 6 to 11.
C37_ShotWithinMaxima ==
    /\ [][ (KeyDownE /\ ball' # ball) =>
              /\ Abs(ball'.vx) <= BALL_MAX_VX
              /\ Abs(ball'.vy) <= BALL_MAX_VY ]_vars
    /\ [] ( \A e \in 6..10 : ShotTravel(e) < ShotTravel(e + 1) )

\* what does hold: the vertical velocity of a launch is within its
\* maximum, and the speed of travel never falls as the energy grows
ShotVerticalWithinMaximum ==
    [][ (KeyDownE /\ ball' # ball) => Abs(ball'.vy) <= BALL_MAX_VY ]_vars
ShotTravelNonDecreasing ==
    \A e \in 0..11 : ShotTravel(e) <= ShotTravel(e + 1)

\* ------------------------------------------------------------------
\* Properties of the ball's kind and of its place in the world (SpecBall)
\* ------------------------------------------------------------------

\* C38: in every reachable state a soccer ball has energy 0 and is not
\* being shot.
C38_SoccerIsPlain ==
    (ball.kind = "BALL_SOCCER") => (ball.energy = 0 /\ ~ball.shooting)

\* a basketball with energy, in its shot, has just been toggled to a
\* soccer ball
C38_Witness ==
    /\ ball.kind = "BALL_SOCCER"
    /\ upd.tabFrom.kind = "BALL_BASKETBALL"
    /\ upd.tabFrom.energy > 0
    /\ upd.tabFrom.shooting

\* C39: at the end of every tick of game mode the ball lies inside the
\* world: radius <= x <= WORLD_WIDTH - radius, y >= radius, and y is at
\* most the height at which it rests on the ground; this also after the
\* push-outs of the platforms and of the player and after a scoring reset
\* later in the same tick.
C39_BallInsideWorld ==
    GameTick =>
        /\ ball.radius <= ball.x
        /\ ball.x <= Milli(WORLD_WIDTH) - ball.radius
        /\ ball.radius <= ball.y
        /\ ball.y <= BallGroundY(ball)

\* what does hold: a tick in which neither a platform nor the player
\* pushed the ball and no basket scored leaves the ball inside the world
BallInsideWorldWhenUntouched ==
    (GameTick /\ ~upd.hitPlayer /\ upd.resets = 0 /\ platforms = << >>) =>
        /\ ball.radius <= ball.x
        /\ ball.x <= Milli(WORLD_WIDTH) - ball.radius
        /\ ball.radius <= ball.y
        /\ ball.y <= BallGroundY(ball)

---------------------------------------------------------------------------
\* The level editor: tools, clicks, Save and Load (SpecEditor).

GRID_SIZE == 32
MaxPlatforms == 2
MaxBaskets == 1

\* operator<< writes a bool (no boolalpha) as 1 or 0
RECURSIVE PlatformsText(_)
PlatformsText(plats) ==
    IF plats = << >> THEN << >>
    ELSE << Head(plats).x, Head(plats).y, Head(plats).w, Head(plats).h,
            IF Head(plats).isSolid THEN 1 ELSE 0 >>
         \o PlatformsText(Tail(plats))

RECURSIVE BasketsText(_)
BasketsText(bsk) ==
    IF bsk = << >> THEN << >>
    ELSE << Head(bsk).x, Head(bsk).y, Head(bsk).w, Head(bsk).h >>
         \o BasketsText(Tail(bsk))

\* the numbers a Save writes up to the platforms (lines 426-433) ...
PointsAndPlatformsText(pts, plats) ==
    << IF pts.hasStart THEN 1 ELSE 0, pts.start[1], pts.start[2],
       IF pts.hasFinish THEN 1 ELSE 0, pts.finish[1], pts.finish[2],
       Len(plats) >> \o PlatformsText(plats)

\* ... and the whole of what it writes (lines 426-441)
LevelText(pts, plats, bsk) ==
    PointsAndPlatformsText(pts, plats) \o << Len(bsk) >> \o BasketsText(bsk)

\* an input stream on the file: the numbers, the place of the next one,
\* whether the file is still open, and the failbit
OpenStream(file) == [text |-> file.text, pos |-> 1, open |-> TRUE,
                     fail |-> FALSE]

\* operator>> of a number: it fails, leaving its target alone, when the
\* stream has failed before, when the file has been closed (a closed
\* filebuf has nothing to read), or at the end of the text
CanExtract(st) == st.open /\ ~st.fail /\ st.pos <= Len(st.text)
AfterExtract(st) ==
    IF CanExtract(st) THEN [st EXCEPT !.pos = @ + 1]
    ELSE [st EXCEPT !.fail = TRUE]

\* the stream after k numbers have been extracted
RECURSIVE Skip(_, _)
Skip(st, k) == IF k = 0 THEN st ELSE Skip(AfterExtract(st), k - 1)

\* the k-th number extracted from st on (k = 1: the next one); 0 stands
\* for a target that was left alone
Nth(st, k) ==
    IF CanExtract(Skip(st, k - 1))
    THEN Skip(st, k - 1).text[Skip(st, k - 1).pos]
    ELSE 0

\* the loops of lines 455-459 and 468-472: n elements read from st on
RECURSIVE ReadPlatforms(_, _)
ReadPlatforms(st, n) ==
    IF n = 0 THEN << >>
    ELSE << [x |-> Nth(st, 1), y |-> Nth(st, 2), w |-> Nth(st, 3),
             h |-> Nth(st, 4), isSolid |-> Nth(st, 5) # 0] >>
         \o ReadPlatforms(Skip(st, 5), n - 1)

RECURSIVE ReadBaskets(_, _)
ReadBaskets(st, n) ==
    IF n = 0 THEN << >>
    ELSE << [x |-> Nth(st, 1), y |-> Nth(st, 2), w |-> Nth(st, 3),
             h |-> Nth(st, 4)] >>
         \o ReadBaskets(Skip(st, 4), n - 1)

\* the points as both loads read them (298-300, 452-454); the platforms,
\* cleared first, are the seventh number and that many platforms after it
\* (302-309, 456-460)
ReadPoints(st) ==
    [hasStart |-> Nth(st, 1) # 0, start |-> << Nth(st, 2), Nth(st, 3) >>,
     hasFinish |-> Nth(st, 4) # 0, finish |-> << Nth(st, 5), Nth(st, 6) >>]

\* the stream when the platforms have been read
AtBaskets(st) == Skip(st, 7 + 5 * Nth(st, 7))

\* the baskets a load ends with when it asks the stream st for them, bsk
\* being the baskets in memory (lines 312-324, 464-476): when the count
\* cannot be read the collection is left as it is
ReadLevelBaskets(st, bsk) ==
    IF CanExtract(st) THEN ReadBaskets(Skip(st, 1), Nth(st, 1)) ELSE bsk

\* the load at startup asks the open stream (312-326: close comes last)
StartupBaskets(file) == ReadLevelBaskets(AtBaskets(OpenStream(file)), << >>)

\* the editor's Load closes the file first (line 462) and asks then (466)
EditorLoadBaskets(file, bsk) ==
    ReadLevelBaskets([AtBaskets(OpenStream(file)) EXCEPT !.open = FALSE],
                     bsk)

\* level files found at startup: none, one of the old format (without
\* baskets), and one a Save of an earlier run wrote
StartFiles ==
    { [exists |-> FALSE, text |-> << >>],
      [exists |-> TRUE,
       text |-> PointsAndPlatformsText(InitialPoints, << SolidA >>)],
      [exists |-> TRUE,
       text |-> LevelText(InitialPoints, << FallB >>, << BasketB1 >>)] }

\* everything but the level and the editor's state
loopVars == << pc, playerX, playerY, velocityY, isGrounded, wasInAir,
               bounceLevel, spacePressed, spacePressedThisFall,
               hadSmallRebound, faceOffset, lastFacing, editorMode,
               frameLocals, initialJump, boostsThisFall, tickHistory,
               ball, rect, hit, upd, ticks >>

\* the editor just opened (P, line 359) after the startup load
InitEditor ==
    /\ pc = "events"
    /\ playerX = StartX
    /\ playerY = PlayerGroundY
    /\ velocityY = 0
    /\ isGrounded = TRUE
    /\ wasInAir = FALSE
    /\ bounceLevel = 0
    /\ spacePressed = FALSE
    /\ spacePressedThisFall = FALSE
    /\ hadSmallRebound = FALSE
    /\ faceOffset = 0
    /\ lastFacing = 1
    /\ editorMode = TRUE
    /\ bouncedThisFrame = FALSE
    /\ landedOnPlatform = FALSE
    /\ landedOnGround = FALSE
    /\ airLanding = FALSE
    /\ landingLevel = 0
    /\ landingBoost = FALSE
    /\ landingLatch = FALSE
    /\ initialJump = FALSE
    /\ boostsThisFall = 0
    /\ landedOn = 0
    /\ tickStart = NoStart
    /\ quiet = FALSE
    /\ ball = InitialBall
    /\ rect = NoRect
    /\ hit = FALSE
    /\ upd = NoUpdate
    /\ ticks = 0
    /\ currentTool = "TOOL_PLATFORM_SOLID"
    /\ lastSave = NoSave
    /\ levelFile \in StartFiles
    /\ IF levelFile.exists
       THEN /\ points = ReadPoints(OpenStream(levelFile))
            /\ platforms = ReadPlatforms(Skip(OpenStream(levelFile), 7),
                                        Nth(OpenStream(levelFile), 7))
            /\ baskets = StartupBaskets(levelFile)
       ELSE /\ points = InitialPoints
            /\ platforms = << >>
            /\ baskets = << >>

\* a tool key, 1 to 6 (lines 379-403)
KeyDownTool ==
    /\ pc = "events"
    /\ editorMode
    /\ \E t \in Tools : currentTool' = t
    /\ UNCHANGED << loopVars, platforms, baskets, points, levelFile,
                    lastSave >>

\* the places of the world the mouse is clicked at (lines 575-576): two
\* places of one cell of the grid
ClickPoints == { << 700, 1300 >>, << 675, 1281 >> }

Snapped(n) == (n \div GRID_SIZE) * GRID_SIZE

\* the platforms without the first one that holds the point (603-612)
RECURSIVE DeleteAt(_, _, _)
DeleteAt(plats, wx, wy) ==
    IF plats = << >> THEN << >>
    ELSE IF /\ wx >= Head(plats).x /\ wx <= Head(plats).x + Head(plats).w
            /\ wy >= Head(plats).y /\ wy <= Head(plats).y + Head(plats).h
         THEN Tail(plats)
         ELSE << Head(plats) >> \o DeleteAt(Tail(plats), wx, wy)

\* the left mouse button in the editor (lines 572-620)
MouseDown ==
    /\ pc = "events"
    /\ editorMode
    /\ \E c \in ClickPoints :
         CASE currentTool \in { "TOOL_PLATFORM_SOLID",
                                "TOOL_PLATFORM_FALLTHROUGH" } ->
                /\ Len(platforms) < MaxPlatforms
                /\ platforms' = Append(platforms,
                       [x |-> Snapped(c[1]), y |-> Snapped(c[2]),
                        w |-> GRID_SIZE * 6, h |-> GRID_SIZE,
                        isSolid |-> currentTool = "TOOL_PLATFORM_SOLID"])
                /\ UNCHANGED << points, baskets >>
           [] currentTool = "TOOL_START" ->
                /\ points' = [points EXCEPT
                                 !.start = << Snapped(c[1]), Snapped(c[2]) >>,
                                 !.hasStart = TRUE]
                /\ UNCHANGED << platforms, baskets >>
           [] currentTool = "TOOL_FINISH" ->
                /\ points' = [points EXCEPT
                                 !.finish = << Snapped(c[1]), Snapped(c[2]) >>,
                                 !.hasFinish = TRUE]
                /\ UNCHANGED << platforms, baskets >>
           [] currentTool = "TOOL_DELETE" ->
                /\ platforms' = DeleteAt(platforms, c[1], c[2])
                /\ UNCHANGED << points, baskets >>
           [] currentTool = "TOOL_BASKET" ->
                /\ Len(baskets) < MaxBaskets
                /\ baskets' = Append(baskets,
                       [x |-> Snapped(c[1]), y |-> Snapped(c[2]),
                        w |-> GRID_SIZE * 4, h |-> GRID_SIZE * 2])
                /\ UNCHANGED << points, platforms >>
    /\ UNCHANGED << loopVars, currentTool, levelFile, lastSave >>

\* S: Save (lines 421-444)
KeyDownS ==
    /\ pc = "events"
    /\ editorMode
    /\ levelFile' = [exists |-> TRUE,
                     text |-> LevelText(points, platforms, baskets)]
    /\ lastSave' = [done |-> TRUE, platforms |-> platforms,
                    baskets |-> baskets]
    /\ UNCHANGED << loopVars, platforms, baskets, points, currentTool >>

\* L: Load (lines 445-481)
KeyDownL ==
    /\ pc = "events"
    /\ editorMode
    /\ IF levelFile.exists
       THEN /\ points' = ReadPoints(OpenStream(levelFile))
            /\ platforms' = ReadPlatforms(Skip(OpenStream(levelFile), 7),
                                         Nth(OpenStream(levelFile), 7))
            /\ baskets' = EditorLoadBaskets(levelFile, baskets)
       ELSE UNCHANGED << points, platforms, baskets >>
    /\ UNCHANGED << loopVars, currentTool, levelFile, lastSave >>

NextEditor == KeyDownTool \/ MouseDown \/ KeyDownS \/ KeyDownL

SpecEditor == InitEditor /\ [][NextEditor]_vars

\* C40: the editor's Load restores the saved level: after a Load the
\* platforms in memory, in their order, and the baskets in memory are what
\* the last Save wrote to the level file, whatever was added or deleted
\* since that Save.
C40_LoadRestoresSave ==
    [][ (KeyDownL /\ lastSave.done) =>
           /\ platforms' = lastSave.platforms
           /\ baskets' = lastSave.baskets ]_vars

\* what does hold: the Load restores the platforms of the last Save, in
\* their order, and leaves the baskets in memory as they are
LoadRestoresPlatforms ==
    [][ (KeyDownL /\ lastSave.done) =>
           /\ platforms' = lastSave.platforms
           /\ baskets' = baskets ]_vars

\* the load at startup does read the baskets of the file
StartupReadsBaskets ==
    \A f \in StartFiles :
        f.text = LevelText(InitialPoints, << FallB >>, << BasketB1 >>)
            => StartupBaskets(f) = << BasketB1 >>

====
